---- MODULE Spec2Model ----
(***************************************************************************)
(* Model of thediveo/irks: the concurrent IRQ detail collection pipeline   *)
(* (allIRQDetails in irksome_details.go) together with the range list      *)
(* parser cpuList it uses, and the counter table parser                    *)
(* (iterateAllCounters and cpuListFromProcInterrupts in irksome.go).       *)
(*                                                                         *)
(* Byte strings are modelled as sequences of one-character strings.        *)
(***************************************************************************)
EXTENDS Integers, Sequences, FiniteSets, TLC

(***************************************************************************)
(* Bounds.  The source sets size = 16 (both queue capacities and the       *)
(* number of workers); the model scales it down.  MaxValid bounds the      *)
(* well-formed entries of a directory, MaxNeighbours those listed next to  *)
(* a skipped entry, MaxRuns the iterations over one sequence, MaxRows the   *)
(* data lines of a counter table, MaxTokens the tokens of a range list.    *)
(* Numbers are uint64 in the source; the model scales the width down to    *)
(* UintBits so that the wrap-around stays within reach.                    *)
(***************************************************************************)
size == 2

MaxValid == 4

MaxNeighbours == 2

MaxRuns == 2

MaxRows == 3

\* the width of the unsigned integers of the parsers (64 in the source)
UintBits == 10

\* the longest range list, in tokens
MaxTokens == 3

(***************************************************************************)
(* Byte string helpers (faf.Bytestring as used by cpuList).                *)
(***************************************************************************)
Digits == <<"0", "1", "2", "3", "4", "5", "6", "7", "8", "9">>

IsDigit(ch) == \E i \in 1..10 : Digits[i] = ch

DigitVal(ch) == (CHOOSE i \in 1..10 : Digits[i] = ch) - 1

\* positions are 0-based as in the source: byte at pos is b[pos+1]
EOL(b, pos) == pos >= Len(b)

\* unsigned arithmetic wraps around
Modulus == 2 ^ UintBits

\* variant of Uint64Loop that stops behind the second digit
Uint64LoopTwoDigits(b, pos, num) ==
    IF pos >= Len(b) THEN [num |-> num, ok |-> TRUE, pos |-> pos]
    ELSE IF ~IsDigit(b[pos + 1]) THEN [num |-> num, ok |-> TRUE, pos |-> pos]
    ELSE [num |-> (num * 10 + DigitVal(b[pos + 1])) % Modulus, ok |-> TRUE, pos |-> pos + 1]

RECURSIVE Uint64Loop(_, _, _)
Uint64Loop(b, pos, num) ==
    IF pos >= Len(b) THEN [num |-> num, ok |-> TRUE, pos |-> pos]
    ELSE IF ~IsDigit(b[pos + 1]) THEN [num |-> num, ok |-> TRUE, pos |-> pos]
    ELSE Uint64Loop(b, pos + 1, (num * 10 + DigitVal(b[pos + 1])) % Modulus)

\* variant of Uint64 that rejects a number of more than three digits
Uint64RejectWide(b, pos) ==
    IF pos >= Len(b) THEN [num |-> 0, ok |-> FALSE, pos |-> pos]
    ELSE IF ~IsDigit(b[pos + 1]) THEN [num |-> 0, ok |-> FALSE, pos |-> pos]
    ELSE IF Uint64Loop(b, pos + 1, 0).pos - pos > 3
    THEN [num |-> 0, ok |-> FALSE, pos |-> pos]
    ELSE Uint64Loop(b, pos + 1, DigitVal(b[pos + 1]))

Uint64(b, pos) ==
    IF pos >= Len(b) THEN [num |-> 0, ok |-> FALSE, pos |-> pos]
    ELSE IF ~IsDigit(b[pos + 1]) THEN [num |-> 0, ok |-> FALSE, pos |-> pos]
    ELSE Uint64Loop(b, pos + 1, DigitVal(b[pos + 1]))

\* consumes one byte; ok = FALSE (and the zero byte) at end of line
NextByte(b, pos) ==
    IF pos >= Len(b) THEN [ch |-> "", ok |-> FALSE, pos |-> pos]
    ELSE [ch |-> b[pos + 1], ok |-> TRUE, pos |-> pos + 1]

(***************************************************************************)
(* The repository's own bytestring (used by the counter table parser) has  *)
(* in addition SkipSpace, SkipText and NumFields.                          *)
(***************************************************************************)
\* skips 0x20 bytes; eol = TRUE when the end of the line is reached
RECURSIVE SkipSpace(_, _)
SkipSpace(b, pos) ==
    IF pos >= Len(b) THEN [eol |-> TRUE, pos |-> pos]
    ELSE IF b[pos + 1] /= " " THEN [eol |-> FALSE, pos |-> pos]
    ELSE SkipSpace(b, pos + 1)

\* variant of SkipText that stays behind the first byte when only that matches
SkipTextFirstByte(b, pos, s) ==
    IF pos >= Len(b) \/ pos + Len(s) > Len(b) THEN [ok |-> FALSE, pos |-> pos]
    ELSE IF SubSeq(b, pos + 1, pos + Len(s)) /= s
    THEN [ok |-> FALSE, pos |-> IF b[pos + 1] = s[1] THEN pos + 1 ELSE pos]
    ELSE [ok |-> TRUE, pos |-> pos + Len(s)]

\* skips the text s if it is there; otherwise the position stays
SkipText(b, pos, s) ==
    IF pos >= Len(b) \/ pos + Len(s) > Len(b) THEN [ok |-> FALSE, pos |-> pos]
    ELSE IF SubSeq(b, pos + 1, pos + Len(s)) /= s THEN [ok |-> FALSE, pos |-> pos]
    ELSE [ok |-> TRUE, pos |-> pos + Len(s)]

\* the inner loops of NumFields: the first position at or after pos holding
\* a byte other than a space (a space), or Len(b)
RECURSIVE PastSpaces(_, _)
PastSpaces(b, pos) ==
    IF pos >= Len(b) THEN pos
    ELSE IF b[pos + 1] /= " " THEN pos
    ELSE PastSpaces(b, pos + 1)

RECURSIVE PastField(_, _)
PastField(b, pos) ==
    IF pos >= Len(b) THEN pos
    ELSE IF b[pos + 1] = " " THEN pos
    ELSE PastField(b, pos + 1)

RECURSIVE NumFieldsLoop(_, _, _)
NumFieldsLoop(b, pos, num) ==
    LET start == PastSpaces(b, pos) IN
    IF start >= Len(b) THEN num
    ELSE LET end == PastField(b, start) IN
         IF end >= Len(b) THEN num + 1
         ELSE NumFieldsLoop(b, end, num + 1)

\* variant of NumFields that counts the spaces between the fields
NumFieldsCountSpaces(b, pos) ==
    Cardinality({i \in (pos + 1)..Len(b) : b[i] = " " /\ i > 1 /\ b[i - 1] /= " "})

NumFields(b, pos) == NumFieldsLoop(b, pos, 0)

(***************************************************************************)

(* cpuList: note that in the source a "break" inside the switch leaves     *)
(* only the switch, so the for loop goes on with the next iteration.       *)
(***************************************************************************)
RECURSIVE cpuListLoop(_, _, _)
cpuListLoop(b, pos, cpus) ==
    IF EOL(b, pos) THEN cpus
    ELSE LET from == Uint64(b, pos) IN
         IF ~from.ok THEN cpus
         ELSE IF EOL(b, from.pos) THEN Append(cpus, <<from.num, from.num>>)
         ELSE LET nx == NextByte(b, from.pos) IN
              IF nx.ch = "," THEN
                  cpuListLoop(b, nx.pos, Append(cpus, <<from.num, from.num>>))
              ELSE IF nx.ch = "-" THEN
                  LET to == Uint64(b, nx.pos) IN
                  IF ~to.ok THEN cpuListLoop(b, to.pos, cpus)
                  ELSE LET n2 == NextByte(b, to.pos) IN
                       cpuListLoop(b, n2.pos, Append(cpus, <<from.num, to.num>>))
              ELSE cpuListLoop(b, nx.pos, cpus)

cpuList(b) == cpuListLoop(b, 0, <<>>)

(***************************************************************************)
(* faf.ParseUint on a directory entry name.                                *)
(***************************************************************************)
ParseUint(name) ==
    LET r == Uint64(name, 0) IN
    IF r.ok /\ r.pos = Len(name) THEN [num |-> r.num, ok |-> TRUE]
    ELSE [num |-> 0, ok |-> FALSE]

(***************************************************************************)
(* The directory tree handed to allIRQDetails(root).  A file is what       *)
(* faf.ReadFile returns for it: ok = FALSE when it cannot be read.         *)
(***************************************************************************)
File(data) == [ok |-> TRUE, data |-> data]

NoFile == [ok |-> FALSE, data |-> <<>>]

Entry(name, isDir, actions, affinity) ==
    [Name |-> name, IsDir |-> isDir, actions |-> actions, affinity |-> affinity]

GoodActions == File(<<"a", ",", "b", "\n">>)

GoodAffinity == File(<<"1", "-", "3", ",", "4", "\n">>)

ActionsPool ==
    << GoodActions, File(<<"c", "\n">>), File(<<"d", ",", "\n">>), File(<<"e", "\n">>) >>

AffinityPool ==
    << GoodAffinity, File(<<"0", "\n">>), File(<<"0", ",", "2", "\n">>),
       File(<<"5", "-", "3", "\n">>) >>

\* the i-th entry with two well-formed files, named by the digit i
ValidEntry(i) ==
    Entry(<<Digits[i + 1]>>, TRUE, ActionsPool[((i - 1) % 4) + 1],
          AffinityPool[((i - 1) % 4) + 1])

ValidPrefix(n) == [i \in 1..n |-> ValidEntry(i)]

\* entries the worker (or the producer) passes over
SkippedEntries ==
    { Entry(<<"x">>, TRUE, GoodActions, GoodAffinity),          \* non-numeric name
      Entry(<<"6", "0">>, FALSE, GoodActions, GoodAffinity),    \* not a directory
      Entry(<<"6", "1">>, TRUE, NoFile, GoodAffinity),          \* actions unreadable
      Entry(<<"6", "2">>, TRUE, File(<<>>), GoodAffinity),      \* actions empty
      Entry(<<"6", "3">>, TRUE, File(<<"a">>), GoodAffinity),   \* actions without newline
      Entry(<<"6", "5">>, TRUE, GoodActions, NoFile),           \* affinity unreadable
      Entry(<<"6", "6">>, TRUE, GoodActions, File(<<>>)),       \* affinity empty
      Entry(<<"6", "7">>, TRUE, GoodActions, File(<<"0">>)),    \* affinity without newline
      Entry(<<"6", "8">>, TRUE, GoodActions, File(<<"a", "\n">>)) } \* affinity parses to nothing

\* the actions file holds only a newline
NewlineEntry == Entry(<<"6", "4">>, TRUE, File(<<"\n">>), GoodAffinity)

Catalogue ==
    {ValidEntry(i) : i \in 1..MaxValid} \cup SkippedEntries \cup {NewlineEntry}

\* the listing l with entry e put in after its first k entries
InsertAt(l, k, e) == SubSeq(l, 1, k) \o <<e>> \o SubSeq(l, k + 1, Len(l))

\* <<n, k>>: n well-formed entries and a place k among them, n at most m
Slots(m) == { q \in (0..m) \X (0..m) : q[2] <= q[1] }

\* directories as faf.ReadDir enumerates them: up to MaxValid well-formed
\* entries, or one other entry listed anywhere among a few well-formed ones,
\* or the newline entry listed ahead of well-formed ones
Listings ==
    { ValidPrefix(n) : n \in 0..MaxValid }
    \cup { InsertAt(ValidPrefix(q[1]), q[2], e) :
             e \in SkippedEntries \cup {NewlineEntry}, q \in Slots(MaxNeighbours) }
    \cup { InsertAt(ValidPrefix(n), 0, NewlineEntry) : n \in 0..(MaxValid - 1) }

Dirs ==
    { [listable |-> TRUE, entries |-> l] : l \in Listings }
    \cup { [listable |-> FALSE, entries |-> <<>>] }

(***************************************************************************)
(* The text handed to iterateAllCounters, in the layout of                 *)
(* /proc/interrupts.  A line is written down as its tokens (and the spaces *)
(* around them) and rendered to the bytes the scanner delivers; a token is *)
(* a number in decimal (ok = TRUE, n its value), with the prefix CPU in    *)
(* the header, or any other text (ok = FALSE).                             *)
(***************************************************************************)
RECURSIVE Decimal(_)
Decimal(n) ==
    IF n < 10 THEN <<Digits[n + 1]>>
    ELSE Decimal(n \div 10) \o <<Digits[(n % 10) + 1]>>

Spaces(n) == [i \in 1..n |-> " "]

CPUTok(n) == [ok |-> TRUE, n |-> n, text |-> <<"C", "P", "U">> \o Decimal(n)]

NumTok(n) == [ok |-> TRUE, n |-> n, text |-> Decimal(n)]

Other(text) == [ok |-> FALSE, n |-> 0, text |-> text]

HeaderLine(lead, tokens, gap, trail) ==
    [lead |-> lead, tokens |-> tokens, gap |-> gap, trail |-> trail]

RECURSIVE JoinTokens(_, _)
JoinTokens(tokens, gap) ==
    IF Len(tokens) = 0 THEN <<>>
    ELSE IF Len(tokens) = 1 THEN tokens[1].text
    ELSE tokens[1].text \o Spaces(gap) \o JoinTokens(Tail(tokens), gap)

RenderHeader(h) == Spaces(h.lead) \o JoinTokens(h.tokens, h.gap) \o Spaces(h.trail)

\* a data line: label, optional colon, columns each after one space, tail
RowLine(lead, label, colon, cols, tail) ==
    [lead |-> lead, label |-> label, colon |-> colon, cols |-> cols, tail |-> tail]

RECURSIVE RenderCols(_)
RenderCols(cols) ==
    IF Len(cols) = 0 THEN <<>>
    ELSE <<" ">> \o cols[1].text \o RenderCols(Tail(cols))

RenderRow(r) ==
    Spaces(r.lead) \o r.label.text \o (IF r.colon THEN <<":">> ELSE <<>>)
        \o RenderCols(r.cols) \o r.tail

\* headers in the layout of the kernel: " CPU1 CPU42" and "  CPU0 "
GoodHeaders ==
    { HeaderLine(1, <<CPUTok(1), CPUTok(42)>>, 1, 0),
      HeaderLine(2, <<CPUTok(0)>>, 2, 1) }

\* headers with a field that is not CPU<digits>, and headers without fields
BadHeaders ==
    { HeaderLine(0, <<>>, 1, 0),                                            \* ""
      HeaderLine(2, <<>>, 1, 0),                                            \* "  "
      HeaderLine(2, <<Other(<<"F", "O", "O", "0">>),
                      Other(<<"F", "O", "O", "1">>)>>, 1, 0),               \* "  FOO0 FOO1"
      HeaderLine(2, <<Other(<<"C", "P", "U", "A">>), CPUTok(42)>>, 1, 0),   \* "  CPUA CPU42"
      HeaderLine(1, <<CPUTok(1), Other(<<"x">>)>>, 1, 0),                   \* " CPU1 x"
      HeaderLine(1, <<Other(<<"C", "P", "U">>)>>, 1, 0),                    \* " CPU"
      HeaderLine(1, <<Other(<<"C", "P", "U", "2", "x">>)>>, 1, 0),          \* " CPU2x"
      HeaderLine(1, <<Other(<<"C", "P", "U", "1", "C", "P", "U", "2">>)>>,
                 1, 0),                                                     \* " CPU1CPU2"
      HeaderLine(0, <<Other(<<"C", "P", "U", "1", "C", "P", "U", "2">>),
                      Other(<<"x">>)>>, 1, 0) }                             \* "CPU1CPU2 x"

Junk == Other(<<"a", "b", "c">>)

RowPool ==
    { RowLine(1, NumTok(1), TRUE, <<NumTok(2), NumTok(3)>>, <<" ", "x">>),  \* " 1: 2 3 x"
      RowLine(0, NumTok(5), TRUE, <<NumTok(6), NumTok(7)>>, <<>>),          \* "5: 6 7"
      RowLine(1, NumTok(42), TRUE, <<NumTok(8), NumTok(90)>>, <<" ">>),     \* " 42: 8 90 "
      RowLine(1, Other(<<"N", "M", "I">>), TRUE,
              <<NumTok(1), NumTok(2)>>, <<>>),                              \* " NMI: 1 2"
      RowLine(2, Other(<<>>), FALSE, <<>>, <<>>),                           \* "  "
      RowLine(1, NumTok(7), FALSE, <<NumTok(2), NumTok(3)>>, <<>>),         \* " 7 2 3"
      RowLine(1, NumTok(7), TRUE, <<NumTok(2)>>, <<" ">>),                  \* " 7: 2 "
      RowLine(1, NumTok(8), TRUE, <<Junk, NumTok(3)>>, <<>>) }              \* " 8: abc 3"

RECURSIVE RowSeqs(_)
RowSeqs(n) ==
    IF n = 0 THEN {<<>>}
    ELSE RowSeqs(n - 1) \cup { Append(s, r) : s \in { t \in RowSeqs(n - 1) : Len(t) = n - 1 }, r \in RowPool }

\* irqnums: nil, or a list of IRQ numbers (the last one is not sorted)
NilList == [nil |-> TRUE, list |-> <<>>]

AllowLists ==
    { NilList } \cup
    { [nil |-> FALSE, list |-> l] : l \in { <<>>, <<1, 42>>, <<5, 7>>, <<42, 1>> } }

\* no text at all: the scanner has not even a first line
NoInput == [header |-> <<>>, rows |-> <<>>, irqnums |-> NilList]

Inputs ==
    { NoInput }
    \cup { [header |-> <<h>>, rows |-> rs, irqnums |-> NilList] :
             h \in BadHeaders, rs \in RowSeqs(1) }
    \cup { [header |-> <<h>>, rows |-> rs, irqnums |-> a] :
             h \in GoodHeaders, rs \in RowSeqs(MaxRows), a \in AllowLists }

\* the lines bufio.Scanner splits the text into
Lines(in) ==
    [i \in 1..Len(in.header) |-> RenderHeader(in.header[i])]
        \o [i \in 1..Len(in.rows) |-> RenderRow(in.rows[i])]

ZeroIRQ == [Num |-> 0, Counters |-> <<>>, CPUs |-> <<>>]

ParserAtRest == [pc |-> "header", line |-> 0, irq |-> ZeroIRQ, stopped |-> FALSE]

(***************************************************************************)

(* State of one call of the iterator function returned by allIRQDetails.   *)
(***************************************************************************)
VARIABLES
    dir,            \* the (static) directory tree below root
    done,           \* TRUE once the done channel is closed
    namech,         \* buffered job queue: names not yet received
    namechClosed,   \* TRUE once namech is closed
    detailch,       \* buffered result queue: records not yet received
    detailchClosed, \* TRUE once detailch is closed
    wg,             \* the WaitGroup counter
    worker,         \* per readDetails goroutine: pc, name, details
    producer,       \* directory goroutine: pc and index of the next entry
    closer,         \* pc of the goroutine doing wg.Wait(); close(detailch)
    consumer,       \* the iterator's own loop: pc and the received details
    yielded,        \* records passed to yield, in order
    previous,       \* record sets of the earlier, fully consumed iterations
    panic           \* "none", or the run-time panic that ended the program

(***************************************************************************)
(* State of one call of iterateAllCounters(r, irqnums, yield).             *)
(***************************************************************************)
VARIABLES
    input,          \* the (static) text behind r and the allow-list irqnums
    parser,         \* pc, number of lines scanned, the irq value, stopped
    emitted         \* the records passed to yield, in order

tableVars == <<input, parser, emitted>>

(***************************************************************************)
(* State of one byte string cursor and of the call of cpuList using it.    *)
(***************************************************************************)
VARIABLES
    bstr,           \* the cursor: the bytes b of the line and the position pos
    last,           \* the latest cursor operation: position before, results
    cpulist         \* cpuList: pc and the ranges appended so far

cursorVars == <<bstr, last, cpulist>>

(***************************************************************************)
(* State of one use of AllCounters or CountersFor: the call and the        *)
(* consumer ranging over the iterator it returned.                         *)
(***************************************************************************)
VARIABLES
    source          \* /proc/interrupts as a file, the scanner and the pc

sourceVars == <<source>>

\* the value of the variables of a function that is not being called
NotCalled == <<>>

vars == <<dir, done, namech, namechClosed, detailch, detailchClosed, wg,
          worker, producer, closer, consumer, yielded, previous, panic,
          input, parser, emitted, bstr, last, cpulist, source>>

Workers == 1..size

\* the zero value of IRQDetails, also what a closed channel delivers
ZeroDetails == [Num |-> 0, Actions |-> <<>>, Affinities |-> <<>>]

\* faf.ReadDir yields nothing when the directory cannot be listed
ReadDir(d) == IF d.listable THEN d.entries ELSE <<>>

EntryNamed(d, name) == CHOOSE e \in {d.entries[i] : i \in 1..Len(d.entries)} : e.Name = name

\* contents[:len(contents)-1]
StripLast(contents) == SubSeq(contents, 1, Len(contents) - 1)

BadContents(f) ==
    ~f.ok \/ Len(f.data) < 1 \/ f.data[Len(f.data)] /= "\n"

\* variant of ReadEntry whose Actions still refers to the scratch buffer,
\* which holds the affinity file by the time the record is sent
ReadEntryActionsInBuffer(e) ==
    LET irqnum == ParseUint(e.Name) IN
    IF ~irqnum.ok THEN [send |-> FALSE, details |-> ZeroDetails]
    ELSE IF BadContents(e.actions) THEN [send |-> FALSE, details |-> ZeroDetails]
    ELSE IF BadContents(e.affinity) THEN [send |-> FALSE, details |-> ZeroDetails]
    ELSE LET afflist == cpuList(StripLast(e.affinity.data)) IN
         IF Len(afflist) = 0 THEN [send |-> FALSE, details |-> ZeroDetails]
         ELSE [send |-> TRUE,
               details |-> [Num |-> irqnum.num,
                            Actions |-> SubSeq(e.affinity.data, 1, Len(e.actions.data) - 1),
                            Affinities |-> afflist]]

\* ReadEntry without the check for an empty affinity list
ReadEntryNoAffinityCheck(e) ==
    LET irqnum == ParseUint(e.Name) IN
    IF ~irqnum.ok THEN [send |-> FALSE, details |-> ZeroDetails]
    ELSE IF BadContents(e.actions) THEN [send |-> FALSE, details |-> ZeroDetails]
    ELSE IF BadContents(e.affinity) THEN [send |-> FALSE, details |-> ZeroDetails]
    ELSE [send |-> TRUE,
          details |-> [Num |-> irqnum.num,
                       Actions |-> StripLast(e.actions.data),
                       Affinities |-> cpuList(StripLast(e.affinity.data))]]

\* the body of the worker loop after a name was received (lines 116-142),
\* for the entry e the name belongs to: send = FALSE stands for "continue"
ReadEntry(e) ==
    LET irqnum == ParseUint(e.Name) IN
    IF ~irqnum.ok THEN [send |-> FALSE, details |-> ZeroDetails]
    ELSE IF BadContents(e.actions) THEN [send |-> FALSE, details |-> ZeroDetails]
    ELSE IF BadContents(e.affinity) THEN [send |-> FALSE, details |-> ZeroDetails]
    ELSE LET afflist == cpuList(StripLast(e.affinity.data)) IN
         IF Len(afflist) = 0 THEN [send |-> FALSE, details |-> ZeroDetails]
         ELSE [send |-> TRUE,
               details |-> [Num |-> irqnum.num,
                            Actions |-> StripLast(e.actions.data),
                            Affinities |-> afflist]]

\* the worker's scratch buffer (var contents []byte, declared anew in every
\* pass of the loop) when the body is left for the entry e: faf.ReadFile
\* fills it with the actions file and then, in place, with the affinity file
BufferAfter(e) ==
    IF ~ParseUint(e.Name).ok THEN <<>>
    ELSE IF BadContents(e.actions) THEN e.actions.data
    ELSE e.affinity.data

\* ReadEntry and the buffer it leaves, tabulated once over the catalogue
ReadTable ==
    [e \in Catalogue |->
        [send |-> ReadEntry(e).send, details |-> ReadEntry(e).details,
         contents |-> BufferAfter(e)]]

ReadOne(d, name) == ReadTable[EntryNamed(d, name)]

Init ==
    /\ dir \in Dirs
    /\ done = FALSE
    /\ namech = <<>>
    /\ namechClosed = FALSE
    /\ detailch = <<>>
    /\ detailchClosed = FALSE
    /\ wg = size
    /\ worker = [w \in Workers |-> [pc |-> "select", name |-> <<>>, details |-> ZeroDetails, contents |-> <<>>]]
    /\ producer = [pc |-> "range", idx |-> 1]
    /\ closer = "wait"
    /\ consumer = [pc |-> "recv", details |-> ZeroDetails]
    /\ yielded = <<>>
    /\ previous = <<>>
    /\ panic = "none"
    /\ input = NotCalled
    /\ parser = NotCalled
    /\ bstr = NotCalled
    /\ last = NotCalled
    /\ cpulist = NotCalled
    /\ emitted = NotCalled
    /\ source = NotCalled

Idle(w) == [pc |-> "exit", name |-> <<>>, details |-> ZeroDetails, contents |-> <<>>]

(***************************************************************************)
(* readDetails                                                             *)
(***************************************************************************)
\* select case <-done: return (with the deferred wg.Done)
WorkerDone(w) ==
    /\ panic = "none"
    /\ worker[w].pc = "select"
    /\ done
    /\ worker' = [worker EXCEPT ![w] = Idle(w)]
    /\ wg' = wg - 1
    /\ UNCHANGED <<sourceVars, cursorVars, tableVars, dir, previous, done, namech, namechClosed, detailch, detailchClosed,
                   producer, closer, consumer, yielded, panic>>

\* variant of the receive in which namech hands out its newest name first
WorkerRecvNewest(w) ==
    /\ panic = "none"
    /\ worker[w].pc = "select"
    /\ Len(namech) > 0
    /\ worker' = [worker EXCEPT ![w] = [pc |-> "read", name |-> namech[Len(namech)],
                                        details |-> ZeroDetails,
                                        contents |-> <<>>]]
    /\ namech' = SubSeq(namech, 1, Len(namech) - 1)
    /\ UNCHANGED <<sourceVars, cursorVars, tableVars, dir, previous, done, namechClosed, detailch, detailchClosed, wg,
                   producer, closer, consumer, yielded, panic>>

\* variant of the receive that leaves the name in namech
WorkerRecvPeek(w) ==
    /\ panic = "none"
    /\ worker[w].pc = "select"
    /\ Len(namech) > 0
    /\ worker' = [worker EXCEPT ![w] = [pc |-> "read", name |-> Head(namech),
                                        details |-> ZeroDetails,
                                        contents |-> <<>>]]
    /\ UNCHANGED <<sourceVars, cursorVars, tableVars, dir, previous, done, namech, namechClosed, detailch, detailchClosed, wg,
                   producer, closer, consumer, yielded, panic>>

\* select case name, ok = <-namech with ok = true
WorkerRecv(w) ==
    /\ panic = "none"
    /\ worker[w].pc = "select"
    /\ Len(namech) > 0
    /\ worker' = [worker EXCEPT ![w] = [pc |-> "read", name |-> Head(namech),
                                        details |-> ZeroDetails,
                                        contents |-> <<>>]]
    /\ namech' = Tail(namech)
    /\ UNCHANGED <<sourceVars, cursorVars, tableVars, dir, previous, done, namechClosed, detailch, detailchClosed, wg,
                   producer, closer, consumer, yielded, panic>>

\* select case name, ok = <-namech with ok = false: return
WorkerRecvClosed(w) ==
    /\ panic = "none"
    /\ worker[w].pc = "select"
    /\ Len(namech) = 0
    /\ namechClosed
    /\ worker' = [worker EXCEPT ![w] = Idle(w)]
    /\ wg' = wg - 1
    /\ UNCHANGED <<sourceVars, cursorVars, tableVars, dir, previous, done, namech, namechClosed, detailch, detailchClosed,
                   producer, closer, consumer, yielded, panic>>

\* parse the name, read and check both files
WorkerRead(w) ==
    /\ panic = "none"
    /\ worker[w].pc = "read"
    /\ LET r == ReadOne(dir, worker[w].name) IN
       worker' = [worker EXCEPT ![w] =
                    IF r.send
                    THEN [pc |-> "send", name |-> worker[w].name, details |-> r.details,
                          contents |-> r.contents]
                    ELSE [pc |-> "select", name |-> <<>>, details |-> ZeroDetails, contents |-> <<>>]]
    /\ UNCHANGED <<sourceVars, cursorVars, tableVars, dir, previous, done, namech, namechClosed, detailch, detailchClosed, wg,
                   producer, closer, consumer, yielded, panic>>

\* WorkerSend on a result queue without a capacity limit
WorkerSendUnbounded(w) ==
    /\ panic = "none"
    /\ worker[w].pc = "send"
    /\ IF detailchClosed
       THEN /\ panic' = "send on closed detailch"
            /\ UNCHANGED <<detailch, worker>>
       ELSE /\ detailch' = Append(detailch, worker[w].details)
            /\ worker' = [worker EXCEPT ![w] =
                            [pc |-> "select", name |-> <<>>, details |-> ZeroDetails, contents |-> <<>>]]
            /\ UNCHANGED panic
    /\ UNCHANGED <<sourceVars, cursorVars, tableVars, dir, previous, done, namech, namechClosed, detailchClosed, wg,
                   producer, closer, consumer, yielded>>

\* detailch <- details: blocks while the buffer is full, panics when closed
WorkerSend(w) ==
    /\ panic = "none"
    /\ worker[w].pc = "send"
    /\ detailchClosed \/ Len(detailch) < size
    /\ IF detailchClosed
       THEN /\ panic' = "send on closed detailch"
            /\ UNCHANGED <<detailch, worker>>
       ELSE /\ detailch' = Append(detailch, worker[w].details)
            /\ worker' = [worker EXCEPT ![w] =
                            [pc |-> "select", name |-> <<>>, details |-> ZeroDetails, contents |-> <<>>]]
            /\ UNCHANGED panic
    /\ UNCHANGED <<sourceVars, cursorVars, tableVars, dir, previous, done, namech, namechClosed, detailchClosed, wg,
                   producer, closer, consumer, yielded>>

(***************************************************************************)
(* the goroutine ranging over faf.ReadDir                                  *)
(***************************************************************************)
\* if !irqEntry.IsDir() { continue }
ProducerSkip ==
    /\ panic = "none"
    /\ producer.pc = "range"
    /\ producer.idx <= Len(ReadDir(dir))
    /\ ~ReadDir(dir)[producer.idx].IsDir
    /\ producer' = [producer EXCEPT !.idx = @ + 1]
    /\ UNCHANGED <<sourceVars, cursorVars, tableVars, dir, previous, done, namech, namechClosed, detailch, detailchClosed, wg,
                   worker, closer, consumer, yielded, panic>>

\* namech <- string(irqEntry.Name): blocks while the buffer is full
ProducerSend ==
    /\ panic = "none"
    /\ producer.pc = "range"
    /\ producer.idx <= Len(ReadDir(dir))
    /\ ReadDir(dir)[producer.idx].IsDir
    /\ Len(namech) < size
    /\ namech' = Append(namech, ReadDir(dir)[producer.idx].Name)
    /\ producer' = [producer EXCEPT !.idx = @ + 1]
    /\ UNCHANGED <<sourceVars, cursorVars, tableVars, dir, previous, done, namechClosed, detailch, detailchClosed, wg,
                   worker, closer, consumer, yielded, panic>>

\* ProducerClose that returns without closing when nothing could be listed
ProducerCloseListedOnly ==
    /\ panic = "none"
    /\ producer.pc = "range"
    /\ producer.idx > Len(ReadDir(dir))
    /\ namechClosed' = dir.listable
    /\ producer' = [producer EXCEPT !.pc = "exit"]
    /\ UNCHANGED <<sourceVars, cursorVars, tableVars, dir, previous, done, namech, detailch, detailchClosed, wg,
                   worker, closer, consumer, yielded, panic>>

\* variant of ProducerClose that closes namech as soon as it is full
ProducerCloseWhenFull ==
    /\ panic = "none"
    /\ producer.pc = "range"
    /\ producer.idx > Len(ReadDir(dir)) \/ Len(namech) = size
    /\ namechClosed' = TRUE
    /\ producer' = [producer EXCEPT !.pc = "exit"]
    /\ UNCHANGED <<sourceVars, cursorVars, tableVars, dir, previous, done, namech, detailch, detailchClosed, wg,
                   worker, closer, consumer, yielded, panic>>

\* close(namech) after the last entry
ProducerClose ==
    /\ panic = "none"
    /\ producer.pc = "range"
    /\ producer.idx > Len(ReadDir(dir))
    /\ namechClosed' = TRUE
    /\ producer' = [producer EXCEPT !.pc = "exit"]
    /\ UNCHANGED <<sourceVars, cursorVars, tableVars, dir, previous, done, namech, detailch, detailchClosed, wg,
                   worker, closer, consumer, yielded, panic>>

(***************************************************************************)
(* wg.Wait(); close(detailch)                                              *)
(***************************************************************************)
\* Closer that does not wait for the workers
CloserNoWait ==
    /\ panic = "none"
    /\ closer = "wait"
    /\ closer' = "exit"
    /\ IF detailchClosed
       THEN panic' = "close of closed detailch" /\ UNCHANGED detailchClosed
       ELSE detailchClosed' = TRUE /\ UNCHANGED panic
    /\ UNCHANGED <<sourceVars, cursorVars, tableVars, dir, previous, done, namech, namechClosed, detailch, wg,
                   worker, producer, consumer, yielded>>

Closer ==
    /\ panic = "none"
    /\ closer = "wait"
    /\ wg = 0
    /\ closer' = "exit"
    /\ IF detailchClosed
       THEN panic' = "close of closed detailch" /\ UNCHANGED detailchClosed
       ELSE detailchClosed' = TRUE /\ UNCHANGED panic
    /\ UNCHANGED <<sourceVars, cursorVars, tableVars, dir, previous, done, namech, namechClosed, detailch, wg,
                   worker, producer, consumer, yielded>>

(***************************************************************************)
(* the loop feeding yield                                                  *)
(***************************************************************************)
\* details := <-detailch; if details.Actions == "" { break }
ConsumerRecv ==
    /\ panic = "none"
    /\ consumer.pc = "recv"
    /\ Len(detailch) > 0 \/ detailchClosed
    /\ LET details == IF Len(detailch) > 0 THEN Head(detailch) ELSE ZeroDetails IN
       consumer' = IF details.Actions = <<>>
                   THEN [pc |-> "returned", details |-> details]
                   ELSE [pc |-> "yield", details |-> details]
    /\ detailch' = IF Len(detailch) > 0 THEN Tail(detailch) ELSE detailch
    /\ UNCHANGED <<sourceVars, cursorVars, tableVars, dir, previous, done, namech, namechClosed, detailchClosed, wg,
                   worker, producer, closer, yielded, panic>>

\* ConsumerYield that closes done but goes on with the loop
ConsumerYieldNoReturn(more) ==
    /\ panic = "none"
    /\ consumer.pc = "yield"
    /\ yielded' = Append(yielded, consumer.details)
    /\ consumer' = [consumer EXCEPT !.pc = "recv"]
    /\ IF more
       THEN UNCHANGED <<done, panic>>
       ELSE IF done
            THEN panic' = "close of closed done" /\ UNCHANGED done
            ELSE done' = TRUE /\ UNCHANGED panic
    /\ UNCHANGED <<sourceVars, cursorVars, tableVars, dir, previous, namech, namechClosed, detailch, detailchClosed, wg,
                   worker, producer, closer>>

\* if !yield(details) { close(done); return }
ConsumerYield(more) ==
    /\ panic = "none"
    /\ consumer.pc = "yield"
    /\ yielded' = Append(yielded, consumer.details)
    /\ IF more
       THEN /\ consumer' = [consumer EXCEPT !.pc = "recv"]
            /\ UNCHANGED <<done, panic>>
       ELSE /\ consumer' = [consumer EXCEPT !.pc = "returned"]
            /\ IF done
               THEN panic' = "close of closed done" /\ UNCHANGED done
               ELSE done' = TRUE /\ UNCHANGED panic
    /\ UNCHANGED <<sourceVars, cursorVars, tableVars, dir, previous, namech, namechClosed, detailch, detailchClosed, wg,
                   worker, producer, closer>>

Next ==
    \/ \E w \in Workers : WorkerDone(w)
    \/ \E w \in Workers : WorkerRecv(w)
    \/ \E w \in Workers : WorkerRecvClosed(w)
    \/ \E w \in Workers : WorkerRead(w)
    \/ \E w \in Workers : WorkerSend(w)
    \/ ProducerSkip
    \/ ProducerSend
    \/ ProducerClose
    \/ Closer
    \/ ConsumerRecv
    \/ \E more \in BOOLEAN : ConsumerYield(more)

Spec == Init /\ [][Next]_vars

(***************************************************************************)
(* Ranging over the sequence once more: the iterator function runs again   *)
(* from the top with fresh channels, a fresh WaitGroup and new goroutines; *)
(* goroutines left over from the earlier call share nothing with it.       *)
(***************************************************************************)
YieldedSet == {yielded[i] : i \in 1..Len(yielded)}

Restart ==
    /\ panic = "none"
    /\ consumer.pc = "returned"
    /\ ~done
    /\ Len(previous) < MaxRuns - 1
    /\ previous' = Append(previous, YieldedSet)
    /\ done' = FALSE
    /\ namech' = <<>>
    /\ namechClosed' = FALSE
    /\ detailch' = <<>>
    /\ detailchClosed' = FALSE
    /\ wg' = size
    /\ worker' = [w \in Workers |-> [pc |-> "select", name |-> <<>>, details |-> ZeroDetails, contents |-> <<>>]]
    /\ producer' = [pc |-> "range", idx |-> 1]
    /\ closer' = "wait"
    /\ consumer' = [pc |-> "recv", details |-> ZeroDetails]
    /\ yielded' = <<>>
    /\ UNCHANGED <<sourceVars, cursorVars, tableVars, dir, panic>>

NextRepeat == Next \/ Restart

SpecRepeat == Init /\ [][NextRepeat]_vars

\* The Go scheduler keeps running goroutines that can take a step.  No step
\* of the pipeline can be repeated forever (every step consumes an entry, a
\* queue slot or a program position), so weak fairness of Next gives the same
\* behaviours as weak fairness of every goroutine: a fair behaviour only ends
\* in a state where no goroutine can move.
FairSpec == Init /\ [][Next]_vars /\ WF_vars(Next)

(***************************************************************************)
(* The counter table parser: cpuListFromProcInterrupts and                 *)
(* iterateAllCounters of irksome.go.                                       *)
(***************************************************************************)
\* the for loop of cpuListFromProcInterrupts; cpuNums has numCPUs elements,
\* and a store at an index beyond them is a run-time panic
RECURSIVE cpuNumsLoop(_, _, _, _, _)
cpuNumsLoop(b, pos, idx, numCPUs, cpuNums) ==
    LET sp == SkipSpace(b, pos)
        st == SkipText(b, sp.pos, <<"C", "P", "U">>)
        cpuNum == Uint64(b, st.pos)
    IN  IF sp.eol \/ ~st.ok \/ ~cpuNum.ok
        THEN [idx |-> idx, cpuNums |-> cpuNums, panic |-> FALSE]
        ELSE IF idx >= numCPUs
        THEN [idx |-> idx, cpuNums |-> cpuNums, panic |-> TRUE]
        ELSE cpuNumsLoop(b, cpuNum.pos, idx + 1, numCPUs,
                         [cpuNums EXCEPT ![idx + 1] = cpuNum.num])

\* cpus is empty where the source returns nil
cpuListFromProcInterrupts(b) ==
    LET numCPUs == NumFields(b, 0) IN
    IF numCPUs = 0 THEN [cpus |-> <<>>, panic |-> FALSE]
    ELSE LET r == cpuNumsLoop(b, 0, 0, numCPUs, [i \in 1..numCPUs |-> 0]) IN
         IF r.panic THEN [cpus |-> <<>>, panic |-> TRUE]
         ELSE IF r.idx /= numCPUs THEN [cpus |-> <<>>, panic |-> FALSE]
         ELSE [cpus |-> r.cpuNums, panic |-> FALSE]

\* slices.BinarySearch(x, target)
RECURSIVE BinarySearchLoop(_, _, _, _)
BinarySearchLoop(x, target, i, j) ==
    IF i >= j THEN i
    ELSE LET h == (i + j) \div 2 IN
         IF x[h + 1] < target THEN BinarySearchLoop(x, target, h + 1, j)
         ELSE BinarySearchLoop(x, target, i, h)

\* variant of BinarySearch that compares with the first element only
BinarySearchFirst(x, target) ==
    [pos |-> 0, found |-> Len(x) > 0 /\ x[1] = target]

BinarySearch(x, target) ==
    LET i == BinarySearchLoop(x, target, 0, Len(x)) IN
    [pos |-> i, found |-> i < Len(x) /\ x[i + 1] = target]

\* the loop over the per-CPU counters: stores into counters as it goes
RECURSIVE CountersLoop(_, _, _, _, _)
CountersLoop(b, pos, idx, numCPUs, counters) ==
    IF idx >= numCPUs THEN [ok |-> TRUE, counters |-> counters]
    ELSE LET sp == SkipSpace(b, pos)
             count == Uint64(b, sp.pos)
         IN  IF sp.eol \/ ~count.ok THEN [ok |-> FALSE, counters |-> counters]
             ELSE CountersLoop(b, count.pos, idx + 1, numCPUs,
                               [counters EXCEPT ![idx + 1] = count.num])

\* CountersLoop with append(counters, count) in place of the indexed store
RECURSIVE CountersLoopAppend(_, _, _, _, _)
CountersLoopAppend(b, pos, idx, numCPUs, counters) ==
    IF idx >= numCPUs THEN [ok |-> TRUE, counters |-> counters]
    ELSE LET sp == SkipSpace(b, pos)
             count == Uint64(b, sp.pos)
         IN  IF sp.eol \/ ~count.ok THEN [ok |-> FALSE, counters |-> counters]
             ELSE CountersLoopAppend(b, count.pos, idx + 1, numCPUs,
                                     Append(counters, count.num))

\* variant of ParseRow that appends the counters of the line to irq.Counters
ParseRowAppend(b, irqnums, irq) ==
    LET sp == SkipSpace(b, 0)
        irqno == Uint64(b, sp.pos)
        colon == SkipText(b, irqno.pos, <<":">>)
        c == CountersLoopAppend(b, colon.pos, 0, Len(irq.CPUs), irq.Counters)
    IN  IF sp.eol \/ ~irqno.ok \/ ~colon.ok THEN [outcome |-> "return", irq |-> irq]
        ELSE IF ~irqnums.nil /\ ~BinarySearch(irqnums.list, irqno.num).found
        THEN [outcome |-> "continue", irq |-> irq]
        ELSE [outcome |-> IF c.ok THEN "yield" ELSE "return",
              irq |-> [irq EXCEPT !.Num = irqno.num, !.Counters = c.counters]]

\* variant of ParseRow that consumes the counters before it filters
ParseRowFilterLast(b, irqnums, irq) ==
    LET sp == SkipSpace(b, 0)
        irqno == Uint64(b, sp.pos)
        colon == SkipText(b, irqno.pos, <<":">>)
        c == CountersLoop(b, colon.pos, 0, Len(irq.CPUs), irq.Counters)
    IN  IF sp.eol \/ ~irqno.ok \/ ~colon.ok THEN [outcome |-> "return", irq |-> irq]
        ELSE IF ~c.ok
        THEN [outcome |-> "return", irq |-> [irq EXCEPT !.Counters = c.counters]]
        ELSE IF ~irqnums.nil /\ ~BinarySearch(irqnums.list, irqno.num).found
        THEN [outcome |-> "continue", irq |-> [irq EXCEPT !.Counters = c.counters]]
        ELSE [outcome |-> "yield",
              irq |-> [irq EXCEPT !.Num = irqno.num, !.Counters = c.counters]]

\* variant of ParseRow that takes the allow-list for a list of IRQs to drop
ParseRowDenyList(b, irqnums, irq) ==
    LET sp == SkipSpace(b, 0)
        irqno == Uint64(b, sp.pos)
        colon == SkipText(b, irqno.pos, <<":">>)
        c == CountersLoop(b, colon.pos, 0, Len(irq.CPUs), irq.Counters)
    IN  IF sp.eol \/ ~irqno.ok \/ ~colon.ok THEN [outcome |-> "return", irq |-> irq]
        ELSE IF ~irqnums.nil /\ BinarySearch(irqnums.list, irqno.num).found
        THEN [outcome |-> "continue", irq |-> irq]
        ELSE [outcome |-> IF c.ok THEN "yield" ELSE "return",
              irq |-> [irq EXCEPT !.Num = irqno.num, !.Counters = c.counters]]

\* variant of ParseRow that passes over a line without a leading number
ParseRowSkipNamed(b, irqnums, irq) ==
    LET sp == SkipSpace(b, 0)
        irqno == Uint64(b, sp.pos)
        colon == SkipText(b, irqno.pos, <<":">>)
        c == CountersLoop(b, colon.pos, 0, Len(irq.CPUs), irq.Counters)
    IN  IF sp.eol \/ ~irqno.ok THEN [outcome |-> "continue", irq |-> irq]
        ELSE IF ~colon.ok THEN [outcome |-> "return", irq |-> irq]
        ELSE IF ~irqnums.nil /\ ~BinarySearch(irqnums.list, irqno.num).found
        THEN [outcome |-> "continue", irq |-> irq]
        ELSE [outcome |-> IF c.ok THEN "yield" ELSE "return",
              irq |-> [irq EXCEPT !.Num = irqno.num, !.Counters = c.counters]]

\* variant of ParseRow that passes over a line with a bad counter column
ParseRowSkipShort(b, irqnums, irq) ==
    LET sp == SkipSpace(b, 0)
        irqno == Uint64(b, sp.pos)
        colon == SkipText(b, irqno.pos, <<":">>)
        c == CountersLoop(b, colon.pos, 0, Len(irq.CPUs), irq.Counters)
    IN  IF sp.eol \/ ~irqno.ok \/ ~colon.ok THEN [outcome |-> "return", irq |-> irq]
        ELSE IF ~irqnums.nil /\ ~BinarySearch(irqnums.list, irqno.num).found
        THEN [outcome |-> "continue", irq |-> irq]
        ELSE [outcome |-> IF c.ok THEN "yield" ELSE "continue",
              irq |-> [irq EXCEPT !.Num = irqno.num, !.Counters = c.counters]]

\* variant of ParseRow that stores the counters of a line only when all of
\* them were parsed
ParseRowStoreWhenComplete(b, irqnums, irq) ==
    LET sp == SkipSpace(b, 0)
        irqno == Uint64(b, sp.pos)
        colon == SkipText(b, irqno.pos, <<":">>)
        c == CountersLoop(b, colon.pos, 0, Len(irq.CPUs), irq.Counters)
    IN  IF sp.eol \/ ~irqno.ok \/ ~colon.ok THEN [outcome |-> "return", irq |-> irq]
        ELSE IF ~irqnums.nil /\ ~BinarySearch(irqnums.list, irqno.num).found
        THEN [outcome |-> "continue", irq |-> irq]
        ELSE IF c.ok
        THEN [outcome |-> "yield",
              irq |-> [irq EXCEPT !.Num = irqno.num, !.Counters = c.counters]]
        ELSE [outcome |-> "return", irq |-> [irq EXCEPT !.Num = irqno.num]]

\* the body of the for sc.Scan() loop up to the call of yield, for the line b:
\* what it does next and what it leaves in irq
ParseRow(b, irqnums, irq) ==
    LET sp == SkipSpace(b, 0)
        irqno == Uint64(b, sp.pos)
        colon == SkipText(b, irqno.pos, <<":">>)
        c == CountersLoop(b, colon.pos, 0, Len(irq.CPUs), irq.Counters)
    IN  IF sp.eol \/ ~irqno.ok \/ ~colon.ok THEN [outcome |-> "return", irq |-> irq]
        ELSE IF ~irqnums.nil /\ ~BinarySearch(irqnums.list, irqno.num).found
        THEN [outcome |-> "continue", irq |-> irq]
        ELSE [outcome |-> IF c.ok THEN "yield" ELSE "return",
              irq |-> [irq EXCEPT !.Num = irqno.num, !.Counters = c.counters]]

\* the first sc.Scan(), the header line and the setup of irq
ScanHeader ==
    /\ panic = "none"
    /\ parser.pc = "header"
    /\ LET lines == Lines(input) IN
       IF Len(lines) = 0
       THEN parser' = [parser EXCEPT !.pc = "returned"] /\ UNCHANGED panic
       ELSE LET h == cpuListFromProcInterrupts(lines[1]) IN
            IF h.panic
            THEN /\ panic' = "index out of range"
                 /\ parser' = [parser EXCEPT !.line = 1]
            ELSE /\ UNCHANGED panic
                 /\ IF Len(h.cpus) = 0
                    THEN parser' = [parser EXCEPT !.pc = "returned", !.line = 1]
                    ELSE parser' = [parser EXCEPT
                                      !.pc = "scan", !.line = 1,
                                      !.irq = [Num |-> 0,
                                               Counters |-> [i \in 1..Len(h.cpus) |-> 0],
                                               CPUs |-> h.cpus]]
    /\ UNCHANGED <<input, emitted>>
    /\ UNCHANGED <<sourceVars, cursorVars, dir, done, namech, namechClosed, detailch, detailchClosed, wg,
                   worker, producer, closer, consumer, yielded, previous>>

\* one turn of for sc.Scan() { ... } up to the call of yield
ScanRow ==
    /\ panic = "none"
    /\ parser.pc = "scan"
    /\ LET lines == Lines(input) IN
       IF parser.line >= Len(lines)
       THEN parser' = [parser EXCEPT !.pc = "returned"]
       ELSE LET r == ParseRow(lines[parser.line + 1], input.irqnums, parser.irq) IN
            parser' = [parser EXCEPT
                         !.line = parser.line + 1,
                         !.irq = r.irq,
                         !.pc = IF r.outcome = "return" THEN "returned"
                                ELSE IF r.outcome = "continue" THEN "scan"
                                ELSE "yield"]
    /\ UNCHANGED <<input, emitted, panic>>
    /\ UNCHANGED <<sourceVars, cursorVars, dir, done, namech, namechClosed, detailch, detailchClosed, wg,
                   worker, producer, closer, consumer, yielded, previous>>

\* the records iterateAllCounters yields from the line after line i on when
\* the consumer never declines, and the number of the line at which it
\* returns (0 when it returns at the end of the text)
RECURSIVE CountersFrom(_, _, _, _)
CountersFrom(lines, i, irqnums, irq) ==
    IF i >= Len(lines) THEN [records |-> <<>>, last |-> 0]
    ELSE LET r == ParseRow(lines[i + 1], irqnums, irq) IN
         IF r.outcome = "return" THEN [records |-> <<>>, last |-> i + 1]
         ELSE LET rest == CountersFrom(lines, i + 1, irqnums, r.irq) IN
              IF r.outcome = "continue" THEN rest
              ELSE [records |-> <<r.irq>> \o rest.records, last |-> rest.last]

\* iterateAllCounters(r, irqnums, yield) as a function of the text, for a
\* consumer that never declines
iterateAllCounters(lines, irqnums) ==
    IF Len(lines) = 0 THEN [records |-> <<>>, last |-> 0]
    ELSE LET h == cpuListFromProcInterrupts(lines[1]) IN
         IF h.panic \/ Len(h.cpus) = 0 THEN [records |-> <<>>, last |-> 1]
         ELSE CountersFrom(lines, 1, irqnums,
                           [Num |-> 0, Counters |-> [i \in 1..Len(h.cpus) |-> 0],
                            CPUs |-> h.cpus])

\* variant of Yield that goes on scanning whatever the consumer answers
YieldIgnoreAnswer(more) ==
    /\ panic = "none"
    /\ parser.pc = "yield"
    /\ emitted' = Append(emitted, parser.irq)
    /\ parser' = [parser EXCEPT !.pc = "scan", !.stopped = ~more]
    /\ UNCHANGED <<input, panic>>
    /\ UNCHANGED <<sourceVars, cursorVars, dir, done, namech, namechClosed, detailch, detailchClosed, wg,
                   worker, producer, closer, consumer, yielded, previous>>

\* if !yield(irq) { return }: the consumer answers more or no more
Yield(more) ==
    /\ panic = "none"
    /\ parser.pc = "yield"
    /\ emitted' = Append(emitted, parser.irq)
    /\ parser' = [parser EXCEPT !.pc = IF more THEN "scan" ELSE "returned",
                                !.stopped = ~more]
    /\ UNCHANGED <<input, panic>>
    /\ UNCHANGED <<sourceVars, cursorVars, dir, done, namech, namechClosed, detailch, detailchClosed, wg,
                   worker, producer, closer, consumer, yielded, previous>>

\* a call of iterateAllCounters on one of the texts; the pipeline is not running
InitCounters ==
    /\ input \in Inputs
    /\ parser = ParserAtRest
    /\ emitted = <<>>
    /\ panic = "none"
    /\ dir = NotCalled
    /\ done = NotCalled
    /\ namech = NotCalled
    /\ namechClosed = NotCalled
    /\ detailch = NotCalled
    /\ detailchClosed = NotCalled
    /\ wg = NotCalled
    /\ worker = NotCalled
    /\ producer = NotCalled
    /\ closer = NotCalled
    /\ consumer = NotCalled
    /\ yielded = NotCalled
    /\ previous = NotCalled
    /\ bstr = NotCalled
    /\ last = NotCalled
    /\ cpulist = NotCalled
    /\ source = NotCalled

NextCounters ==
    \/ ScanHeader
    \/ ScanRow
    \/ \E more \in BOOLEAN : Yield(more)

SpecCounters == InitCounters /\ [][NextCounters]_vars

(***************************************************************************)

(* Vocabulary of the properties                                            *)
(***************************************************************************)
AllWorkersExited == \A w \in Workers : worker[w].pc = "exit"

Terminated ==
    /\ producer.pc = "exit"
    /\ namechClosed
    /\ AllWorkersExited
    /\ closer = "exit"
    /\ detailchClosed
    /\ consumer.pc = "returned"

\* the consumer has ended the sequence and the caller never declined a record
FullConsumption == consumer.pc = "returned" /\ ~done

YieldedNums == {yielded[i].Num : i \in 1..Len(yielded)}

EntrySet(d) == {d.entries[i] : i \in 1..Len(d.entries)}

Newlined(f) == f.ok /\ Len(f.data) >= 1 /\ f.data[Len(f.data)] = "\n"

\* entries that are directories with a numeric name and two readable,
\* non-empty, newline-terminated files whose affinity list has a range
Eligible(d) ==
    { e \in EntrySet(d) :
        /\ d.listable
        /\ e.IsDir
        /\ ParseUint(e.Name).ok
        /\ Newlined(e.actions)
        /\ Newlined(e.affinity)
        /\ Len(cpuList(StripLast(e.affinity.data))) >= 1 }

\* eligible entries whose actions file holds more than the newline
Ordinary(d) == { e \in Eligible(d) : Len(e.actions.data) > 1 }

NumsOf(E) == { ParseUint(e.Name).num : e \in E }

OnlyNewline(d) == Eligible(d) \ Ordinary(d)

BlockedOnSend == { w \in Workers : worker[w].pc = "send" }

(***************************************************************************)
(* C1: if the caller stops after the first yielded record, every worker    *)
(* eventually terminates and the result queue is eventually closed.        *)
(***************************************************************************)
C1_EarlyStopTerminates ==
    (done /\ Len(yielded) = 1) ~> (AllWorkersExited /\ detailchClosed)

(***************************************************************************)
(* C2: under full consumption the yielded IRQ numbers are exactly those of *)
(* the eligible entries (an actions file holding only a newline included), *)
(* each yielded once.                                                      *)
(***************************************************************************)
C2_YieldsExactlyEligible ==
    FullConsumption =>
        /\ YieldedNums = NumsOf(Eligible(dir))
        /\ Len(yielded) = Cardinality(YieldedNums)

(***************************************************************************)
(* C3: the result queue is closed at most once, only by the coordinator    *)
(* and only after every worker has terminated; nothing is sent on it       *)
(* after the close.                                                        *)
(***************************************************************************)
C3_SingleCloser ==
    /\ [](panic \notin {"send on closed detailch", "close of closed detailch"})
    /\ [](detailchClosed => AllWorkersExited /\ closer = "exit")
    /\ [][detailchClosed' /= detailchClosed =>
            /\ ~detailchClosed
            /\ closer = "wait" /\ closer' = "exit"
            /\ AllWorkersExited
            /\ worker' = worker]_vars
    /\ [][detailchClosed => Len(detailch') <= Len(detailch)]_vars

C3_Witness == detailchClosed /\ done /\ Len(detailch) > 0

(***************************************************************************)
(* C4: under full consumption every ordinary valid entry is yielded,       *)
(* whatever skipped or degenerate entries the directory also holds.        *)
(***************************************************************************)
C4_OthersStillYielded ==
    FullConsumption => NumsOf(Ordinary(dir)) \subseteq YieldedNums

(***************************************************************************)
(* C5: when the caller never declines, every goroutine terminates: the job *)
(* queue is closed, the workers exit, the result queue is closed and the   *)
(* consumer returns.                                                       *)
(***************************************************************************)
C5_FullConsumptionTerminates == <>(done \/ Terminated)

(***************************************************************************)
(* C6: a second full consumption over the same directory yields the same   *)
(* set of records as the first, whatever the interleavings of the two.     *)
(***************************************************************************)
C6_Repeatable ==
    (Len(previous) >= 1 /\ FullConsumption) => YieldedSet = previous[1]

(***************************************************************************)
(* C7: every record handed to the caller has non-empty actions and a       *)
(* non-empty affinities list.                                              *)
(***************************************************************************)
C7_YieldedNonEmpty ==
    \A i \in 1..Len(yielded) :
        Len(yielded[i].Actions) > 0 /\ Len(yielded[i].Affinities) > 0

C7_Witness ==
    /\ Len(yielded) >= 1
    /\ \E e \in EntrySet(dir) : Newlined(e.actions) /\ Newlined(e.affinity)
                                  /\ e \notin Eligible(dir)

(***************************************************************************)
(* C8: the done channel is closed at most once, only in the step in which  *)
(* the caller declines a record, and once it is closed no further record   *)
(* is handed to the caller.                                                *)
(***************************************************************************)
C8_CancelOneShot ==
    /\ [](panic /= "close of closed done")
    /\ [][done => done' /\ yielded' = yielded]_vars
    /\ [][~done /\ done' =>
            /\ consumer.pc = "yield" /\ consumer'.pc = "returned"
            /\ yielded' = Append(yielded, consumer.details)]_vars

C8_Witness == done /\ consumer.pc = "returned" /\ Len(detailch) > 0

(***************************************************************************)
(* C9: both queues stay within their capacity, a worker holds at most one  *)
(* job, and the records produced but not yet taken by the consumer number  *)
(* at most the result queue capacity plus the number of workers.           *)
(***************************************************************************)
C9_Backpressure ==
    /\ Len(namech) <= size
    /\ Len(detailch) <= size
    /\ Cardinality({w \in Workers : worker[w].pc \in {"read", "send"}}) <= size
    /\ Len(detailch) + Cardinality(BlockedOnSend) <= size + Cardinality(Workers)

C9_Witness == Len(detailch) = size /\ BlockedOnSend /= {} /\ consumer.pc = "recv"

(***************************************************************************)
(* C10: when the root directory cannot be listed nothing is enqueued,      *)
(* nothing is yielded, and every goroutine terminates.                     *)
(***************************************************************************)
C10_SourceUnavailable ==
    /\ [](~dir.listable => yielded = <<>> /\ namech = <<>> /\ detailch = <<>>)
    /\ (~dir.listable) ~> Terminated

C10_Witness == ~dir.listable /\ Terminated /\ yielded = <<>>

(***************************************************************************)
(* C11: the order of the yielded records is not the order in which the     *)
(* directory lists the entries; it follows the order in which the workers  *)
(* finish.  Names leave namech in listing order and records leave detailch *)
(* in sending order, so a record is yielded ahead of at most size - 1      *)
(* records of entries listed before its own (those the other workers were  *)
(* still reading); any order within this limit is possible.                *)
(***************************************************************************)
PosOf(d, num) ==
    CHOOSE i \in 1..Len(d.entries) :
        ParseUint(d.entries[i].Name).ok /\ ParseUint(d.entries[i].Name).num = num

InEnumerationOrder(s, d) ==
    \A i, j \in 1..Len(s) : i < j => PosOf(d, s[i].Num) < PosOf(d, s[j].Num)

\* the records yielded after the i-th although their entries are listed before
Overtaken(i) ==
    { j \in (i + 1)..Len(yielded) : PosOf(dir, yielded[j].Num) < PosOf(dir, yielded[i].Num) }

C11_OrderByCompletion ==
    \A i \in 1..Len(yielded) : Cardinality(Overtaken(i)) <= size - 1

\* a full consumption of at least two entries, in another order than listed
C11_Witness ==
    /\ FullConsumption
    /\ Len(yielded) >= 2
    /\ Len(yielded) = Cardinality(Eligible(dir))
    /\ ~InEnumerationOrder(yielded, dir)

\* a full consumption of the same kind, in the order listed
C11_InOrder ==
    /\ FullConsumption
    /\ Len(yielded) >= 2
    /\ Len(yielded) = Cardinality(Eligible(dir))
    /\ InEnumerationOrder(yielded, dir)

(***************************************************************************)
(* C12: every yielded record carries the number its directory name spells, *)
(* the list of the comma-separated pieces of the actions file (without the *)
(* final newline) and the ranges cpuList reads from the affinity file      *)
(* (without the final newline).                                            *)
(***************************************************************************)
\* strings.Split(s, sep) for a one-byte separator
RECURSIVE SplitLoop(_, _, _, _, _)
SplitLoop(s, sep, pos, piece, pieces) ==
    IF pos > Len(s) THEN Append(pieces, piece)
    ELSE IF s[pos] = sep THEN SplitLoop(s, sep, pos + 1, <<>>, Append(pieces, piece))
    ELSE SplitLoop(s, sep, pos + 1, Append(piece, s[pos]), pieces)

Split(s, sep) == SplitLoop(s, sep, 1, <<>>, <<>>)

\* the Actions field of the pipeline's record is one string; read as a list
\* of actions it has that string as its only element
ActionsList(details) == <<details.Actions>>

C12_RecordContent ==
    \A i \in 1..Len(yielded) :
        \E e \in EntrySet(dir) :
            /\ ParseUint(e.Name).ok
            /\ yielded[i].Num = ParseUint(e.Name).num
            /\ ActionsList(yielded[i]) = Split(StripLast(e.actions.data), ",")
            /\ yielded[i].Affinities = cpuList(StripLast(e.affinity.data))

\* what the records do carry: the number, the unsplit actions text, the ranges
C12_RecordContentUnsplit ==
    \A i \in 1..Len(yielded) :
        \E e \in EntrySet(dir) :
            /\ ParseUint(e.Name).ok
            /\ yielded[i].Num = ParseUint(e.Name).num
            /\ yielded[i].Actions = StripLast(e.actions.data)
            /\ yielded[i].Affinities = cpuList(StripLast(e.affinity.data))

(***************************************************************************)
(* Vocabulary of the counter table properties, read off the tokens of the  *)
(* lines as they were written down.                                        *)
(***************************************************************************)
\* at least one field, and every field is CPU<digits>
WellFormedHeader(h) ==
    Len(h.tokens) >= 1 /\ \A i \in 1..Len(h.tokens) : h.tokens[i].ok

HeaderCPUs(h) == [i \in 1..Len(h.tokens) |-> h.tokens[i].n]

\* the parser has taken the header line and set up irq from it
HeaderAccepted == parser.pc /= "header" /\ Len(parser.irq.CPUs) > 0

\* the parser has returned and the consumer never declined a record
ReadToTheEnd == parser.pc = "returned" /\ ~parser.stopped

(***************************************************************************)
(* C13: when the header is accepted with k CPU tokens, every emitted       *)
(* record has k counters and k online CPUs, and the online CPUs are the    *)
(* header's list in every record.                                          *)
(***************************************************************************)
C13_CountersMatchCPUs ==
    \A i \in 1..Len(emitted) :
        LET k == Len(parser.irq.CPUs) IN
        /\ HeaderAccepted
        /\ Len(emitted[i].Counters) = k
        /\ Len(emitted[i].CPUs) = k
        /\ emitted[i].CPUs = emitted[1].CPUs
        /\ \A h \in {input.header[j] : j \in 1..Len(input.header)} :
              WellFormedHeader(h) =>
                  k = Len(h.tokens) /\ emitted[i].CPUs = HeaderCPUs(h)

C13_Witness ==
    /\ Len(emitted) >= 2
    /\ Len(emitted[2].Counters) = 2
    /\ emitted[2].CPUs = <<1, 42>>

(***************************************************************************)
(* C14: a header line is accepted exactly when it has at least one field   *)
(* and every field is CPU<digits>; the online CPUs are then the numbers of *)
(* the fields in order; any other header ends the call with nothing        *)
(* emitted.                                                                *)
(***************************************************************************)
HeaderScanned == parser.line >= 1

C14_HeaderAcceptance ==
    HeaderScanned =>
        LET h == input.header[1] IN
        /\ HeaderAccepted <=> WellFormedHeader(h)
        /\ HeaderAccepted => parser.irq.CPUs = HeaderCPUs(h)
        /\ ~WellFormedHeader(h) => parser.pc = "returned" /\ emitted = <<>>

(***************************************************************************)
(* C15: no text makes the parsers panic; in particular the header parser   *)
(* never stores a CPU number at an index at or beyond the number of fields *)
(* that sized the CPU list.                                                *)
(***************************************************************************)
C15_NoIndexOutOfRange == panic /= "index out of range"

(***************************************************************************)
(* More vocabulary: the data lines of a text whose header is well formed.  *)
(***************************************************************************)
TableWellHeaded == Len(input.header) = 1 /\ WellFormedHeader(input.header[1])

ExpectedCPUs == HeaderCPUs(input.header[1])

\* a line starting with a number, then a colon, then a number for every CPU
WellFormedRow(r) ==
    /\ r.label.ok
    /\ r.colon
    /\ Len(r.cols) >= Len(ExpectedCPUs)
    /\ \A i \in 1..Len(ExpectedCPUs) : r.cols[i].ok

RecordOf(r) ==
    [Num |-> r.label.n,
     Counters |-> [i \in 1..Len(ExpectedCPUs) |-> r.cols[i].n],
     CPUs |-> ExpectedCPUs]

\* the number of data lines ahead of the first one whose index is in S
LinesAhead(S) ==
    IF S = {} THEN Len(input.rows)
    ELSE (CHOOSE i \in S : \A j \in S : i <= j) - 1

Unnumbered(r) == ~r.label.ok

(***************************************************************************)
(* C16: without allow-list the emitted records are, in the order of the    *)
(* text, the records of the data lines ahead of the first line that does   *)
(* not start with a number; that line is the last one read, so no line     *)
(* behind it is emitted even if it is a well-formed numeric row.           *)
(***************************************************************************)
C16_StopsAtFirstUnnumbered ==
    (TableWellHeaded /\ input.irqnums.nil) =>
        LET n == LinesAhead({j \in 1..Len(input.rows) : Unnumbered(input.rows[j])}) IN
        /\ parser.line <= n + 2
        /\ Len(emitted) <= n
        /\ (\A j \in 1..n : WellFormedRow(input.rows[j])) =>
              /\ \A i \in 1..Len(emitted) : emitted[i] = RecordOf(input.rows[i])
              /\ ReadToTheEnd => Len(emitted) = n

C16_Witness ==
    /\ TableWellHeaded /\ input.irqnums.nil
    /\ ReadToTheEnd
    /\ Len(input.rows) = 3
    /\ WellFormedRow(input.rows[1])
    /\ Unnumbered(input.rows[2]) /\ input.rows[2].label.text /= <<>>
    /\ WellFormedRow(input.rows[3])
    /\ emitted = <<RecordOf(input.rows[1])>>

\* the allow-list lets the row's IRQ number through
Allowed(r) ==
    input.irqnums.nil \/ \E i \in 1..Len(input.irqnums.list) : input.irqnums.list[i] = r.label.n

AllowListSorted ==
    \A i, j \in 1..Len(input.irqnums.list) :
        i < j => input.irqnums.list[i] < input.irqnums.list[j]

Blank(r) == ~r.label.ok /\ r.label.text = <<>>

\* a numbered row that is let through but lacks a number for some CPU
BadColumns(r) ==
    /\ r.label.ok
    /\ r.colon
    /\ Allowed(r)
    /\ \/ Len(r.cols) < Len(ExpectedCPUs)
       \/ \E i \in 1..Len(ExpectedCPUs) : i <= Len(r.cols) /\ ~r.cols[i].ok

\* blank, no colon right after the number, too few or non-numeric counters
FatalRow(r) == Blank(r) \/ (r.label.ok /\ ~r.colon) \/ BadColumns(r)

\* the records of the first n data lines that the allow-list lets through
RECURSIVE RecordsOfFirst(_)
RecordsOfFirst(n) ==
    IF n = 0 THEN <<>>
    ELSE IF Allowed(input.rows[n])
         THEN Append(RecordsOfFirst(n - 1), RecordOf(input.rows[n]))
         ELSE RecordsOfFirst(n - 1)

IsPrefix(s, t) == Len(s) <= Len(t) /\ s = SubSeq(t, 1, Len(s))

(***************************************************************************)
(* C17: a data line that is blank, has no colon right after its number,    *)
(* has fewer counter columns than there are online CPUs or has a counter   *)
(* that is not a number yields no record and is the last line read; the    *)
(* records emitted are those of the rows ahead of it (numbered rows, well  *)
(* formed where the allow-list lets them through).                         *)
(***************************************************************************)
C17_FatalRowEndsSequence ==
    LET fatal == {j \in 1..Len(input.rows) : FatalRow(input.rows[j])}
        n == LinesAhead(fatal)
    IN  ( /\ TableWellHeaded
          /\ AllowListSorted
          /\ fatal /= {}
          /\ \A j \in 1..n : /\ input.rows[j].label.ok
                             /\ Allowed(input.rows[j]) => WellFormedRow(input.rows[j]) ) =>
            /\ parser.line <= n + 2
            /\ IsPrefix(emitted, RecordsOfFirst(n))
            /\ ReadToTheEnd => emitted = RecordsOfFirst(n)

C17_Witness ==
    /\ TableWellHeaded /\ input.irqnums.nil
    /\ ReadToTheEnd
    /\ Len(input.rows) = 3
    /\ WellFormedRow(input.rows[1])
    /\ BadColumns(input.rows[2])
    /\ WellFormedRow(input.rows[3])
    /\ emitted = <<RecordOf(input.rows[1])>>

(***************************************************************************)
(* C18: with an allow-list sorted in ascending order and a text of well-   *)
(* formed numeric rows, the emitted records are the records of the rows    *)
(* whose IRQ number is in the allow-list, in the order of the text;        *)
(* numbers of the allow-list that no row carries add nothing.              *)
(***************************************************************************)
InAllowList(r) ==
    r.label.n \in {input.irqnums.list[i] : i \in 1..Len(input.irqnums.list)}

AllRowsWellFormed == \A j \in 1..Len(input.rows) : WellFormedRow(input.rows[j])

C18_AllowListFilter ==
    ( /\ TableWellHeaded
      /\ ~input.irqnums.nil
      /\ AllowListSorted
      /\ AllRowsWellFormed ) =>
        LET wanted == SelectSeq(input.rows, InAllowList) IN
        /\ Len(emitted) <= Len(wanted)
        /\ \A i \in 1..Len(emitted) : emitted[i] = RecordOf(wanted[i])
        /\ ReadToTheEnd => Len(emitted) = Len(wanted)

\* rows 1, 5 and 42 read with the allow-list 1, 42: 5 is dropped
C18_Witness ==
    /\ TableWellHeaded /\ AllRowsWellFormed
    /\ input.irqnums = [nil |-> FALSE, list |-> <<1, 42>>]
    /\ ReadToTheEnd
    /\ Len(input.rows) = 3
    /\ input.rows[2].label.n = 5
    /\ Len(emitted) = 2
    /\ emitted[1].Num = 1 /\ emitted[2].Num = 42

(***************************************************************************)
(* C19: a row whose IRQ number is not in the allow-list is passed over     *)
(* without its counter columns being parsed: whatever follows the colon,   *)
(* scanning such a row leaves irq as it was, emits nothing and goes on to  *)
(* the next line.                                                          *)
(***************************************************************************)
\* the next line to scan is a numbered row that the allow-list drops
AtDroppedRow ==
    /\ TableWellHeaded
    /\ AllowListSorted
    /\ panic = "none"
    /\ parser.pc = "scan"
    /\ parser.line <= Len(input.rows)
    /\ LET r == input.rows[parser.line] IN r.label.ok /\ r.colon /\ ~Allowed(r)

C19_DroppedRowNotParsed ==
    [][AtDroppedRow =>
          /\ parser'.pc = "scan"
          /\ parser'.line = parser.line + 1
          /\ parser'.irq = parser.irq
          /\ emitted' = emitted]_vars

\* a dropped row with too few counters was scanned, and a row behind it emitted
C19_Witness ==
    /\ TableWellHeaded /\ AllowListSorted /\ ~input.irqnums.nil
    /\ Len(input.rows) >= 2
    /\ LET r == input.rows[1] IN
          r.label.ok /\ r.colon /\ ~Allowed(r) /\ Len(r.cols) < Len(ExpectedCPUs)
    /\ Len(emitted) = 1
    /\ emitted[1] = RecordOf(input.rows[2])

(***************************************************************************)
(* C20: once the consumer has answered that it wants no more records, the  *)
(* parser has returned: no further line is read and the consumer is not    *)
(* called again.                                                           *)
(***************************************************************************)
C20_EarlyStop ==
    /\ [](parser.stopped => parser.pc = "returned")
    /\ [][parser.stopped => parser'.line = parser.line /\ emitted' = emitted]_vars
    /\ [][~parser.stopped /\ parser'.stopped =>
              /\ parser'.line = parser.line
              /\ emitted' = Append(emitted, parser.irq)]_vars

\* the consumer declined the first record while lines were still unread
C20_Witness ==
    /\ parser.stopped
    /\ Len(emitted) = 1
    /\ parser.line < Len(Lines(input))
    /\ WellFormedRow(input.rows[parser.line])

(***************************************************************************)
(* C21: the record handed to yield carries the counter columns of its own  *)
(* row, in column order.  The counters live in one backing array shared by *)
(* all records: it is written only while a later row is parsed, column by  *)
(* column, so whoever keeps a record without copying reads the later row's *)
(* values in the columns that row got to, also when that row fails midway. *)
(***************************************************************************)
\* the number of leading counter columns of r that are numbers, at most k
RECURSIVE NumericColumns(_, _)
NumericColumns(cols, k) ==
    IF k = 0 \/ Len(cols) = 0 THEN 0
    ELSE IF ~cols[1].ok THEN 0
    ELSE 1 + NumericColumns(Tail(cols), k - 1)

\* the columns of the backing array that parsing row r writes
ColumnsWritten(r) ==
    IF r.label.ok /\ r.colon /\ Allowed(r)
    THEN NumericColumns(r.cols, Len(ExpectedCPUs))
    ELSE 0

\* what a consumer that kept the i-th record without copying reads now
KeptRecord(i) == [emitted[i] EXCEPT !.Counters = parser.irq.Counters]

C21_CountersValidity ==
    /\ [][(TableWellHeaded /\ AllowListSorted /\ parser.pc = "yield"
              /\ emitted' /= emitted) =>
            emitted' = Append(emitted, RecordOf(input.rows[parser.line - 1]))]_vars
    /\ [][(TableWellHeaded /\ AllowListSorted /\ parser.pc /= "header"
              /\ parser'.irq.Counters /= parser.irq.Counters) =>
            /\ parser.pc = "scan"
            /\ parser'.line = parser.line + 1
            /\ emitted' = emitted]_vars
    /\ [][(TableWellHeaded /\ AllowListSorted /\ parser.pc = "scan"
              /\ parser'.line = parser.line + 1) =>
            LET r == input.rows[parser.line] IN
            parser'.irq.Counters =
                [c \in 1..Len(ExpectedCPUs) |->
                    IF c <= ColumnsWritten(r) THEN r.cols[c].n
                    ELSE parser.irq.Counters[c]]]_vars

\* the record of "5: 6 7" was kept; the short row " 7: 2 " behind it wrote
\* the first column and then ended the sequence
C21_Witness ==
    /\ TableWellHeaded /\ ReadToTheEnd
    /\ Len(emitted) = 1
    /\ emitted[1].Counters = <<6, 7>>
    /\ KeptRecord(1).Counters = <<2, 7>>

(***************************************************************************)
(* The byte string cursor on its own: a cursor is put on a line and any    *)
(* of its operations is called, in any order.                              *)
(***************************************************************************)
otherVars == <<sourceVars, tableVars, dir, done, namech, namechClosed, detailch,
               detailchClosed, wg, worker, producer, closer, consumer,
               yielded, previous, panic>>

\* the lines of the byte string tests, and a few more
CursorLines ==
    { <<>>,
      <<" ", " ", " ">>,
      <<" ", " ", " ", "f", "o", "o">>,
      <<"f", "o", "o", "b", "a", "r">>,
      <<"b", "a", "r">>,
      <<"4">>,
      <<"7", "f", "o", "o">>,
      <<"0", "0", "7", ":", " ", "4", "2">>,
      <<"4", "0", "9", "9", " ", "1", "0", "2", "3">>,
      <<" ", "F", " ", " ", "B", "A", "R", " ", "B", "A", "Z">>,
      <<" ", "F", " ", " ", "B", "A", "R", " ", "B", "A", "Z", " ", "R", "A", "T", "Z", " ">> }

\* the texts SkipText is asked for
Literals ==
    { <<>>, <<"f", "o", "o">>, <<"b", "a", "r">>, <<"b", "a", "z">>,
      <<"b", "a", "r", "z">>, <<":">>, <<" ">> }

\* what is kept of a cursor operation: its name, the text asked for, the
\* position before the call, and its results
Called(op, text, ok, num, ch) ==
    [op |-> op, text |-> text, from |-> bstr.pos, ok |-> ok, num |-> num, ch |-> ch]

NothingCalled == [op |-> "none", text |-> <<>>, from |-> 0, ok |-> FALSE, num |-> 0, ch |-> ""]

InitCursor ==
    /\ bstr \in {[b |-> l, pos |-> 0] : l \in CursorLines}
    /\ last = NothingCalled
    /\ cpulist = NotCalled
    /\ input = NotCalled
    /\ parser = NotCalled
    /\ emitted = NotCalled
    /\ panic = "none"
    /\ dir = NotCalled
    /\ done = NotCalled
    /\ namech = NotCalled
    /\ namechClosed = NotCalled
    /\ detailch = NotCalled
    /\ detailchClosed = NotCalled
    /\ wg = NotCalled
    /\ worker = NotCalled
    /\ producer = NotCalled
    /\ closer = NotCalled
    /\ consumer = NotCalled
    /\ yielded = NotCalled
    /\ previous = NotCalled
    /\ source = NotCalled

CallEOL ==
    /\ last' = Called("EOL", <<>>, EOL(bstr.b, bstr.pos), 0, "")
    /\ UNCHANGED <<bstr, cpulist, otherVars>>

CallSkipSpace ==
    LET r == SkipSpace(bstr.b, bstr.pos) IN
    /\ bstr' = [bstr EXCEPT !.pos = r.pos]
    /\ last' = Called("SkipSpace", <<>>, r.eol, 0, "")
    /\ UNCHANGED <<cpulist, otherVars>>

\* variant of CallSkipText that skips the length of the text unseen
CallSkipTextUnseen(s) ==
    /\ bstr' = [bstr EXCEPT !.pos = bstr.pos + Len(s)]
    /\ last' = Called("SkipText", s, TRUE, 0, "")
    /\ UNCHANGED <<cpulist, otherVars>>

CallSkipText(s) ==
    LET r == SkipText(bstr.b, bstr.pos, s) IN
    /\ bstr' = [bstr EXCEPT !.pos = r.pos]
    /\ last' = Called("SkipText", s, r.ok, 0, "")
    /\ UNCHANGED <<cpulist, otherVars>>

CallUint64 ==
    LET r == Uint64(bstr.b, bstr.pos) IN
    /\ bstr' = [bstr EXCEPT !.pos = r.pos]
    /\ last' = Called("Uint64", <<>>, r.ok, r.num, "")
    /\ UNCHANGED <<cpulist, otherVars>>

CallNumFields ==
    /\ last' = Called("NumFields", <<>>, TRUE, NumFields(bstr.b, bstr.pos), "")
    /\ UNCHANGED <<bstr, cpulist, otherVars>>

CallNext ==
    LET r == NextByte(bstr.b, bstr.pos) IN
    /\ bstr' = [bstr EXCEPT !.pos = r.pos]
    /\ last' = Called("Next", <<>>, r.ok, 0, r.ch)
    /\ UNCHANGED <<cpulist, otherVars>>

NextCursor ==
    \/ CallEOL
    \/ CallSkipSpace
    \/ \E s \in Literals : CallSkipText(s)
    \/ CallUint64
    \/ CallNumFields
    \/ CallNext

SpecCursor == InitCursor /\ [][NextCursor]_vars

(***************************************************************************)
(* cpuList step by step: one action per pass through the body of its for   *)
(* loop, on a cursor over the given bytes.                                 *)
(***************************************************************************)
\* a token of a range list: a bare number, or a pair from-to
Single(n) == [pair |-> FALSE, from |-> n, to |-> n]

Pair(a, b) == [pair |-> TRUE, from |-> a, to |-> b]

TokenPool == {Single(42), Single(7), Pair(44, 45), Pair(5, 3)}

RenderToken(t) ==
    IF t.pair THEN Decimal(t.from) \o <<"-">> \o Decimal(t.to) ELSE Decimal(t.from)

RECURSIVE RenderTokens(_)
RenderTokens(tokens) ==
    IF Len(tokens) = 0 THEN <<>>
    ELSE IF Len(tokens) = 1 THEN RenderToken(tokens[1])
    ELSE RenderToken(tokens[1]) \o <<",">> \o RenderTokens(Tail(tokens))

RECURSIVE TokenLists(_)
TokenLists(n) ==
    IF n = 0 THEN {<<>>}
    ELSE LET shorter == TokenLists(n - 1) IN
         shorter \cup {Append(l, t) : l \in {s \in shorter : Len(s) = n - 1}, t \in TokenPool}

\* a token that is not one: a number and a byte that is no delimiter
\* ("delim"), or a number and a dash without a number ("dash")
NoBadToken == [kind |-> "none", from |-> 0, ch |-> ""]

BadDelimiter(n, ch) == [kind |-> "delim", from |-> n, ch |-> ch]

BadDash(n) == [kind |-> "dash", from |-> n, ch |-> "-"]

RenderBad(bad) == IF bad.kind = "none" THEN <<>> ELSE Decimal(bad.from) \o <<bad.ch>>

\* a range list as written: well-formed tokens, then possibly a bad token,
\* then the text behind it
RangeList(good, bad, behind) == [good |-> good, bad |-> bad, behind |-> behind]

RenderRangeList(l) ==
    RenderTokens(l.good)
        \o (IF Len(l.good) > 0 /\ l.bad.kind /= "none" THEN <<",">> ELSE <<>>)
        \o RenderBad(l.bad) \o l.behind

\* the texts put behind a bad delimiter, behind a dash, behind a pair
BehindDelimiter == {<<>>, <<"7">>, <<"7", "-", "9">>, <<",", "7">>}

BehindDash == {<<>>, <<"x", "7">>, <<",", "7">>, <<"-", "7">>}

BehindPair == {<<"x", "7">>, <<"x">>, <<"-", "7">>, <<",">>, <<" ", "7", ",", "8">>}

FewTokens == {<<>>, <<Single(42)>>, <<Pair(44, 45)>>}

RangeLists ==
    {RangeList(good, NoBadToken, <<>>) : good \in TokenLists(MaxTokens)}
    \cup {RangeList(good, BadDelimiter(42, ch), behind) :
            good \in FewTokens, ch \in {"!", "x"}, behind \in BehindDelimiter}
    \cup {RangeList(good, BadDash(42), behind) :
            good \in FewTokens, behind \in BehindDash}
    \cup {RangeList(good, NoBadToken, behind) :
            good \in {<<Pair(44, 45)>>, <<Single(42), Pair(44, 45)>>},
            behind \in BehindPair}
    \cup {RangeList(<<>>, NoBadToken, <<"a">>)}

\* variant of cpuListPass that goes back to the start of the token when the
\* number behind the dash is missing
cpuListPassRewind(b, pos, list) ==
    IF EOL(b, pos) THEN [pos |-> pos, list |-> list, left |-> TRUE]
    ELSE LET from == Uint64(b, pos) IN
         IF ~from.ok THEN [pos |-> from.pos, list |-> list, left |-> TRUE]
         ELSE IF EOL(b, from.pos)
         THEN [pos |-> from.pos, list |-> Append(list, <<from.num, from.num>>), left |-> TRUE]
         ELSE LET nx == NextByte(b, from.pos) IN
              IF nx.ch = ","
              THEN [pos |-> nx.pos, list |-> Append(list, <<from.num, from.num>>), left |-> FALSE]
              ELSE IF nx.ch = "-" THEN
                  LET to == Uint64(b, nx.pos) IN
                  IF ~to.ok THEN [pos |-> pos, list |-> list, left |-> FALSE]
                  ELSE [pos |-> NextByte(b, to.pos).pos,
                        list |-> Append(list, <<from.num, to.num>>), left |-> FALSE]
              ELSE [pos |-> nx.pos, list |-> list, left |-> FALSE]

\* variant of cpuListPass that leaves the byte behind a pair where it is
cpuListPassKeepByte(b, pos, list) ==
    IF EOL(b, pos) THEN [pos |-> pos, list |-> list, left |-> TRUE]
    ELSE LET from == Uint64(b, pos) IN
         IF ~from.ok THEN [pos |-> from.pos, list |-> list, left |-> TRUE]
         ELSE IF EOL(b, from.pos)
         THEN [pos |-> from.pos, list |-> Append(list, <<from.num, from.num>>), left |-> TRUE]
         ELSE LET nx == NextByte(b, from.pos) IN
              IF nx.ch = ","
              THEN [pos |-> nx.pos, list |-> Append(list, <<from.num, from.num>>), left |-> FALSE]
              ELSE IF nx.ch = "-" THEN
                  LET to == Uint64(b, nx.pos) IN
                  IF ~to.ok THEN [pos |-> to.pos, list |-> list, left |-> FALSE]
                  ELSE [pos |-> to.pos,
                        list |-> Append(list, <<from.num, to.num>>), left |-> FALSE]
              ELSE [pos |-> nx.pos, list |-> list, left |-> FALSE]

\* one pass through the body of the for loop: the position and the list
\* afterwards, and whether the for loop was left
cpuListPass(b, pos, list) ==
    IF EOL(b, pos) THEN [pos |-> pos, list |-> list, left |-> TRUE]
    ELSE LET from == Uint64(b, pos) IN
         IF ~from.ok THEN [pos |-> from.pos, list |-> list, left |-> TRUE]
         ELSE IF EOL(b, from.pos)
         THEN [pos |-> from.pos, list |-> Append(list, <<from.num, from.num>>), left |-> TRUE]
         ELSE LET nx == NextByte(b, from.pos) IN
              IF nx.ch = ","
              THEN [pos |-> nx.pos, list |-> Append(list, <<from.num, from.num>>), left |-> FALSE]
              ELSE IF nx.ch = "-" THEN
                  LET to == Uint64(b, nx.pos) IN
                  IF ~to.ok THEN [pos |-> to.pos, list |-> list, left |-> FALSE]
                  ELSE [pos |-> NextByte(b, to.pos).pos,
                        list |-> Append(list, <<from.num, to.num>>), left |-> FALSE]
              ELSE [pos |-> nx.pos, list |-> list, left |-> FALSE]

InitRangeList ==
    /\ input \in RangeLists
    /\ bstr = [b |-> RenderRangeList(input), pos |-> 0]
    /\ cpulist = [pc |-> "for", list |-> <<>>, passes |-> 0]
    /\ last = NotCalled
    /\ parser = NotCalled
    /\ emitted = NotCalled
    /\ panic = "none"
    /\ dir = NotCalled
    /\ done = NotCalled
    /\ namech = NotCalled
    /\ namechClosed = NotCalled
    /\ detailch = NotCalled
    /\ detailchClosed = NotCalled
    /\ wg = NotCalled
    /\ worker = NotCalled
    /\ producer = NotCalled
    /\ closer = NotCalled
    /\ consumer = NotCalled
    /\ yielded = NotCalled
    /\ previous = NotCalled
    /\ source = NotCalled

cpuListStep ==
    /\ cpulist.pc = "for"
    /\ LET r == cpuListPass(bstr.b, bstr.pos, cpulist.list) IN
       /\ bstr' = [bstr EXCEPT !.pos = r.pos]
       /\ cpulist' = [pc |-> IF r.left THEN "return" ELSE "for",
                   list |-> r.list, passes |-> cpulist.passes + 1]
    /\ UNCHANGED <<last, otherVars>>

NextRangeList == cpuListStep

SpecRangeList == InitRangeList /\ [][NextRangeList]_vars

\* cpuList is one function call: it keeps running until it returns
FairSpecRangeList == SpecRangeList /\ WF_vars(NextRangeList)

\* the step by step reading and the function agree
cpuListAgrees == cpulist.pc = "return" => cpulist.list = cpuList(bstr.b)

(***************************************************************************)
(* Vocabulary of the range list properties.                                *)
(***************************************************************************)
Returned == cpulist.pc = "return"

\* tokens joined by single commas and nothing else
WellFormedList(l) == l.bad.kind = "none" /\ l.behind = <<>>

\* one range per token, in the order of the tokens
RangesOf(tokens) == [i \in 1..Len(tokens) |-> <<tokens[i].from, tokens[i].to>>]

(***************************************************************************)
(* C22: for a list of tokens, each a bare number n or a pair a-b, joined   *)
(* by single commas, cpuList returns exactly one range per token in input  *)
(* order, {n,n} for a bare number and {a,b} for a pair; the empty string   *)
(* gives the empty list.                                                   *)
(***************************************************************************)
C22_WellFormedList ==
    (Returned /\ WellFormedList(input)) => cpulist.list = RangesOf(input.good)

C22_Witness ==
    /\ Returned
    /\ input = RangeList(<<Single(42), Pair(44, 45), Single(7)>>, NoBadToken, <<>>)
    /\ cpulist.list = <<<<42, 42>>, <<44, 45>>, <<7, 7>>>>

(***************************************************************************)
(* C23: when a parsed number is followed by a byte other than the end of   *)
(* the input, ',' or a complete '-<number>', the whole token is discarded  *)
(* and no further token is attempted: the result holds only the ranges of  *)
(* the tokens before the bad one ("42!7" gives the empty list).            *)
(***************************************************************************)
C23_BadTokenEndsParsing ==
    (Returned /\ input.bad.kind /= "none") => cpulist.list = RangesOf(input.good)

(***************************************************************************)
(* C24: every range cpuList returns has from <= to, whatever the input,    *)
(* pairs written in descending order such as "5-3" included.               *)
(***************************************************************************)
C24_RangesAscend ==
    Returned => \A i \in 1..Len(cpulist.list) : cpulist.list[i][1] <= cpulist.list[i][2]

(***************************************************************************)
(* C25: after a complete from-to pair only a following ',' is consumed;    *)
(* any other byte behind the pair is left unconsumed and parsing resumes   *)
(* at that byte ("44-45x7" resumes at 'x').                                *)
(***************************************************************************)
\* a complete pair stands at pos
PairAt(b, pos) ==
    LET from == Uint64(b, pos) IN
    /\ from.ok
    /\ from.pos < Len(b)
    /\ b[from.pos + 1] = "-"
    /\ Uint64(b, from.pos + 1).ok

\* the position behind the pair at pos
BehindPairAt(b, pos) == Uint64(b, Uint64(b, pos).pos + 1).pos

C25_OnlyCommaConsumed ==
    [][(cpulist.pc = "for" /\ PairAt(bstr.b, bstr.pos)) =>
        LET end == BehindPairAt(bstr.b, bstr.pos) IN
        bstr'.pos = IF end < Len(bstr.b) /\ bstr.b[end + 1] = ","
                    THEN end + 1 ELSE end]_vars

(***************************************************************************)
(* Vocabulary of the cursor properties.                                    *)
(***************************************************************************)
\* the text s stands at position pos
TextAt(b, pos, s) ==
    /\ pos + Len(s) <= Len(b)
    /\ \A i \in 1..Len(s) : b[pos + i] = s[i]

DigitAt(b, pos) == pos < Len(b) /\ IsDigit(b[pos + 1])

(***************************************************************************)
(* C26: after any sequence of cursor operations (EOL, SkipSpace, SkipText, *)
(* Uint64, NumFields, Next) on one line, 0 <= pos <= len(b), and pos never *)
(* decreases.                                                              *)
(***************************************************************************)
C26_PositionInvariant ==
    /\ [](bstr.pos >= 0 /\ bstr.pos <= Len(bstr.b))
    /\ [][bstr'.pos >= bstr.pos /\ bstr'.b = bstr.b]_vars

\* an operation has moved the cursor to the very end of a line with text
C26_Witness ==
    /\ last.op /= "none"
    /\ Len(bstr.b) > 0
    /\ last.from < bstr.pos
    /\ bstr.pos = Len(bstr.b)

(***************************************************************************)
(* C27: SkipText returns true and advances by len(text) exactly when the   *)
(* bytes at the current position equal text, otherwise it returns false    *)
(* and leaves the position; Uint64 returns ok = false and leaves the       *)
(* position when no digit is at the current position.                      *)
(***************************************************************************)
Uint64FailureKeepsPosition ==
    (last.op = "Uint64" /\ ~DigitAt(bstr.b, last.from)) =>
        (~last.ok /\ bstr.pos = last.from)

RunStarts(b, pos) ==
    {i \in (pos + 1)..Len(b) :
        b[i] /= " " /\ (i = pos + 1 \/ b[i - 1] = " ")}

C28_NumFields ==
    last.op = "NumFields" =>
        /\ last.num = Cardinality(RunStarts(bstr.b, last.from))
        /\ bstr.pos = last.from

\* the fields were counted from inside a field, three of them being left
C28_Witness ==
    /\ last.op = "NumFields"
    /\ last.from > 0
    /\ last.from < Len(bstr.b)
    /\ bstr.b[last.from] /= " "
    /\ bstr.b[last.from + 1] /= " "
    /\ last.num = 3

(***************************************************************************)
(* C29: Uint64, when a digit is at the current position, consumes exactly  *)
(* the maximal run of digits starting there, leaves the position on the    *)
(* first byte that is no digit or at the end of the line, and returns the  *)
(* decimal value of the run, for runs whose value fits the width.          *)
(***************************************************************************)
\* the end of the run of digits standing at pos
EndOfDigits(b, pos) ==
    CHOOSE e \in pos..Len(b) :
        /\ \A i \in (pos + 1)..e : IsDigit(b[i])
        /\ e < Len(b) => ~IsDigit(b[e + 1])

RECURSIVE PowerOfTen(_)
PowerOfTen(n) == IF n = 0 THEN 1 ELSE 10 * PowerOfTen(n - 1)

RECURSIVE SumOfDigits(_, _, _)
\* the sum of digit times place value over the digits at pos+1..e
SumOfDigits(b, pos, e) ==
    IF pos >= e THEN 0
    ELSE DigitVal(b[pos + 1]) * PowerOfTen(e - pos - 1) + SumOfDigits(b, pos + 1, e)

C29_Uint64 ==
    (last.op = "Uint64" /\ DigitAt(bstr.b, last.from)) =>
        LET e == EndOfDigits(bstr.b, last.from) IN
        /\ last.ok
        /\ bstr.pos = e
        /\ SumOfDigits(bstr.b, last.from, e) < Modulus =>
              last.num = SumOfDigits(bstr.b, last.from, e)

\* a number of four digits that fits was read from inside the line
C29_Witness ==
    /\ last.op = "Uint64"
    /\ last.from > 0
    /\ bstr.pos = last.from + 4
    /\ last.num = 1023

(***************************************************************************)
(* C30: once the done channel is closed, every worker returns at its next  *)
(* pass through the select: no worker takes another name from namech,      *)
(* also when names are still queued.                                       *)
(***************************************************************************)
C30_NoDequeueAfterCancel ==
    [][done => \A w \in Workers :
          worker[w].pc = "select" => worker'[w].pc \in {"select", "exit"}]_vars

(***************************************************************************)
(* C39: cpuList terminates on every input: each pass through the loop      *)
(* either leaves the loop or moves the cursor on by at least one byte, so  *)
(* there are at most len(b) + 1 passes, and at most as many ranges as the  *)
(* input has runs of digits.                                               *)
(***************************************************************************)
\* the positions where a run of digits starts
DigitRuns(b) ==
    {i \in 1..Len(b) : IsDigit(b[i]) /\ (i = 1 \/ ~IsDigit(b[i - 1]))}

C39_Terminates ==
    /\ [][cpulist.pc = "for" =>
            (cpulist'.pc = "return" \/ bstr'.pos > bstr.pos)]_vars
    /\ [](/\ cpulist.passes <= Len(bstr.b) + 1
          /\ Len(cpulist.list) <= Cardinality(DigitRuns(bstr.b)))
    /\ <>Returned

\* the loop was gone through three times or more, up to the end of a text
\* with a bad token
C39_Witness ==
    /\ Returned
    /\ input.bad.kind /= "none"
    /\ cpulist.passes >= 3
    /\ bstr.pos = Len(bstr.b)

(***************************************************************************)
(* C40: Uint64 never rejects a run of digits for its size: for a run whose *)
(* decimal value exceeds the largest number of the width it returns        *)
(* ok = true, consumes the whole run, and the number returned is the       *)
(* decimal value modulo 2^width.                                           *)
(***************************************************************************)
C40_Uint64Wraps ==
    (last.op = "Uint64" /\ DigitAt(bstr.b, last.from)) =>
        LET e == EndOfDigits(bstr.b, last.from) IN
        /\ last.ok
        /\ bstr.pos = e
        /\ last.num = SumOfDigits(bstr.b, last.from, e) % Modulus

\* a run of digits whose value does not fit was read
C40_Witness ==
    /\ last.op = "Uint64"
    /\ last.ok
    /\ SumOfDigits(bstr.b, last.from, bstr.pos) >= Modulus
    /\ last.num = SumOfDigits(bstr.b, last.from, bstr.pos) % Modulus
    /\ last.num /= SumOfDigits(bstr.b, last.from, bstr.pos)

(***************************************************************************)
(* C31: after done is closed the goroutine ranging over the directory      *)
(* eventually ends and closes namech, however many entries there are; it   *)
(* does not stay blocked forever at the send into a full namech that no    *)
(* worker reads any more.                                                  *)
(***************************************************************************)
C31_ProducerEndsAfterCancel == done ~> (producer.pc = "exit" /\ namechClosed)

(***************************************************************************)
(* C32: the consumer ends the sequence only when the caller declined a     *)
(* record (and then done is closed) or when detailch has been closed and   *)
(* drained; it never returns while detailch is still open without closing  *)
(* done.                                                                   *)
(***************************************************************************)
C32_ConsumerEndsOnlyTwice ==
    consumer.pc = "returned" => (done \/ (detailchClosed /\ detailch = <<>>))

(***************************************************************************)
(* C33: nothing is duplicated: every name sent on namech is received by    *)
(* one worker and once, every directory entry is sent at most once, and no *)
(* IRQ number is yielded twice in one iteration.  (The names of one        *)
(* directory are distinct, and so are the numbers they stand for.)         *)
(***************************************************************************)
\* how often the entry named name is on its way through the pipeline
Copies(name) ==
    Cardinality({i \in 1..Len(namech) : namech[i] = name})
    + Cardinality({w \in Workers : worker[w].pc \in {"read", "send"} /\ worker[w].name = name})
    + (IF ParseUint(name).ok
       THEN Cardinality({i \in 1..Len(detailch) : detailch[i].Num = ParseUint(name).num})
            + (IF consumer.pc = "yield" /\ consumer.details.Num = ParseUint(name).num
               THEN 1 ELSE 0)
            + Cardinality({i \in 1..Len(yielded) : yielded[i].Num = ParseUint(name).num})
       ELSE 0)

C33_NoDuplication ==
    /\ [](\A i \in 1..Len(dir.entries) :
            /\ Copies(dir.entries[i].Name) <= 1
            /\ i >= producer.idx => Copies(dir.entries[i].Name) = 0)
    /\ [](\A i, j \in 1..Len(yielded) : yielded[i].Num = yielded[j].Num => i = j)
    /\ [][namech' /= namech =>
            IF Len(namech') > Len(namech)
            THEN /\ namech' = Append(namech, ReadDir(dir)[producer.idx].Name)
                 /\ producer'.idx = producer.idx + 1
                 /\ worker' = worker
            ELSE /\ namech' = Tail(namech)
                 /\ \E w \in Workers :
                       /\ worker[w].pc = "select"
                       /\ worker'[w].pc = "read"
                       /\ worker'[w].name = Head(namech)
                       /\ \A v \in Workers \ {w} : worker'[v] = worker[v]]_vars
    /\ [][\A w \in Workers : worker'[w].pc = "read" /\ worker[w].pc /= "read" =>
            namech' = Tail(namech)]_vars

\* all names went through both workers and every entry was yielded once
C33_Witness ==
    /\ consumer.pc = "returned"
    /\ Len(dir.entries) = MaxValid
    /\ Len(yielded) = MaxValid
    /\ \A i \in 1..Len(dir.entries) : Copies(dir.entries[i].Name) = 1

(***************************************************************************)
(* C34: namech is closed at most once, by the producer only, and only      *)
(* after the name of every directory entry has been sent; nothing is sent  *)
(* on namech after it was closed, and no worker closes it.                 *)
(***************************************************************************)
\* the names of the entries that are directories, in listing order
NamesToSend(d) ==
    LET l == ReadDir(d)
        F[i \in 0..Len(l)] ==
            IF i = 0 THEN <<>>
            ELSE IF l[i].IsDir THEN Append(F[i - 1], l[i].Name) ELSE F[i - 1]
    IN  F[Len(l)]

\* the names sent so far: those still queued are the last of them
NamesSent == Len(NamesToSend([dir EXCEPT !.entries = SubSeq(dir.entries, 1, producer.idx - 1)]))

C34_NamechClosedOnce ==
    /\ [][namechClosed' /= namechClosed =>
            /\ ~namechClosed
            /\ namechClosed'
            /\ producer.pc = "range"
            /\ producer'.pc = "exit"
            /\ producer.idx > Len(ReadDir(dir))
            /\ worker' = worker
            /\ namech' = namech]_vars
    /\ [](namechClosed =>
            /\ producer.pc = "exit"
            /\ dir.listable => NamesSent = Len(NamesToSend(dir)))
    /\ [][namechClosed => (namechClosed' /\ Len(namech') <= Len(namech))]_vars

\* namech was closed with names still queued, after all names were sent
C34_Witness ==
    /\ namechClosed
    /\ Len(namech) = size
    /\ Len(NamesToSend(dir)) = MaxValid
    /\ NamesSent = MaxValid

(***************************************************************************)
(* The sequential reference AllIRQDetailsOsReadDir: one loop over the      *)
(* directory entries that yields each record as soon as it is read.        *)
(***************************************************************************)
\* strconv.ParseUint(name, 10, 64): digits only, at least one, and an error
\* when the value is out of range
RECURSIVE ParseUintStrconvLoop(_, _, _)
ParseUintStrconvLoop(name, i, num) ==
    IF i > Len(name) THEN [num |-> num, ok |-> TRUE]
    ELSE IF ~IsDigit(name[i]) THEN [num |-> 0, ok |-> FALSE]
    ELSE IF num * 10 + DigitVal(name[i]) >= Modulus THEN [num |-> 0, ok |-> FALSE]
    ELSE ParseUintStrconvLoop(name, i + 1, num * 10 + DigitVal(name[i]))

ParseUintStrconv(name) ==
    IF Len(name) = 0 THEN [num |-> 0, ok |-> FALSE]
    ELSE ParseUintStrconvLoop(name, 1, 0)

\* the body of the loop up to the call of yield
ReadEntryOsReadDir(e) ==
    LET irqnum == ParseUintStrconv(e.Name)
        afflist == cpuList(StripLast(e.affinity.data))
    IN  IF ~e.IsDir \/ ~irqnum.ok THEN [send |-> FALSE, details |-> ZeroDetails]
        ELSE IF BadContents(e.actions) \/ BadContents(e.affinity)
        THEN [send |-> FALSE, details |-> ZeroDetails]
        ELSE IF Len(afflist) = 0 THEN [send |-> FALSE, details |-> ZeroDetails]
        ELSE [send |-> TRUE,
              details |-> [Num |-> irqnum.num,
                           Actions |-> StripLast(e.actions.data),
                           Affinities |-> afflist]]

\* the records yielded when the caller never declines, in order
AllIRQDetailsOsReadDir(d) ==
    LET l == ReadDir(d)
        F[i \in 0..Len(l)] ==
            IF i = 0 THEN <<>>
            ELSE IF ReadEntryOsReadDir(l[i]).send
                 THEN Append(F[i - 1], ReadEntryOsReadDir(l[i]).details)
                 ELSE F[i - 1]
    IN  F[Len(l)]

(***************************************************************************)
(* C36: for every directory tree the set of records the concurrent         *)
(* pipeline yields when the caller never declines equals the set of        *)
(* records the sequential reference AllIRQDetailsOsReadDir yields.         *)
(***************************************************************************)
C36_SameAsSequential ==
    FullConsumption =>
        YieldedSet = {AllIRQDetailsOsReadDir(dir)[i] :
                        i \in 1..Len(AllIRQDetailsOsReadDir(dir))}

(***************************************************************************)
(* C35: the scratch buffer of a worker is read and written by that worker  *)
(* only, and no record on detailch refers to buffer contents the worker    *)
(* overwrites afterwards: the Actions value is fixed (copied out of the    *)
(* buffer) before the buffer is used again for the affinity file.          *)
(***************************************************************************)
\* the record says what the actions file of its entry says
ActionsOfItsEntry(rec) ==
    \E i \in 1..Len(dir.entries) :
        /\ ParseUint(dir.entries[i].Name).ok
        /\ ParseUint(dir.entries[i].Name).num = rec.Num
        /\ rec.Actions = StripLast(dir.entries[i].actions.data)

C35_ScratchBuffer ==
    /\ [][\A w \in Workers :
            worker'[w].contents /= worker[w].contents =>
                /\ worker[w].pc \in {"read", "send"}
                /\ \A v \in Workers \ {w} : worker'[v] = worker[v]]_vars
    /\ [](\A w \in Workers :
            worker[w].pc = "send" =>
                /\ worker[w].contents = EntryNamed(dir, worker[w].name).affinity.data
                /\ ActionsOfItsEntry(worker[w].details))
    /\ [](/\ \A i \in 1..Len(detailch) : ActionsOfItsEntry(detailch[i])
          /\ \A i \in 1..Len(yielded) : ActionsOfItsEntry(yielded[i]))
    /\ [][\/ detailch' = detailch
          \/ detailch /= <<>> /\ detailch' = Tail(detailch)
          \/ \E w \in Workers : detailch' = Append(detailch, worker[w].details)]_vars

\* a worker is about to send a record whose Actions differ from what its
\* buffer holds by now, the result queue being full
C35_Witness ==
    \E w \in Workers :
        /\ worker[w].pc = "send"
        /\ Len(detailch) = size
        /\ worker[w].contents /= <<>>
        /\ worker[w].details.Actions /= StripLast(worker[w].contents)
        /\ worker[w].details.Actions /=
              SubSeq(worker[w].contents, 1, Len(worker[w].details.Actions))
        /\ ActionsOfItsEntry(worker[w].details)

(***************************************************************************)
(* C37: for every input and every ascending allow-list L, the sequence     *)
(* produced with the filter L equals the sequence produced without a       *)
(* filter, restricted to the records whose IRQ number is in L.             *)
(***************************************************************************)
\* the step by step reading and the function agree
iterateAllCountersAgrees ==
    (ReadToTheEnd /\ panic = "none") =>
        emitted = iterateAllCounters(Lines(input), input.irqnums).records

Unfiltered == iterateAllCounters(Lines(input), NilList)

NumInAllowList(irq) ==
    \E i \in 1..Len(input.irqnums.list) : input.irqnums.list[i] = irq.Num

FilterApplies ==
    ReadToTheEnd /\ panic = "none" /\ ~input.irqnums.nil /\ AllowListSorted

C37_FilterEquivalence ==
    FilterApplies => emitted = SelectSeq(Unfiltered.records, NumInAllowList)

\* the unfiltered iteration is ended by a numbered line that the filter
\* passes over without parsing its columns
EndedByFilteredRow ==
    /\ Unfiltered.last >= 2
    /\ LET r == input.rows[Unfiltered.last - 1] IN
       r.label.ok /\ r.colon /\ ~Allowed(r)

\* as amended: the restricted unfiltered sequence is the beginning of the
\* filtered one, and all of it unless the unfiltered iteration is ended by
\* a line the filter passes over
C37_FilterEquivalenceAmended ==
    FilterApplies =>
        /\ IsPrefix(SelectSeq(Unfiltered.records, NumInAllowList), emitted)
        /\ ~EndedByFilteredRow =>
              emitted = SelectSeq(Unfiltered.records, NumInAllowList)

\* the filter passed over a short line that ends the unfiltered iteration,
\* and a record behind it was yielded
C37_Witness ==
    /\ FilterApplies
    /\ EndedByFilteredRow
    /\ Len(emitted) > Len(SelectSeq(Unfiltered.records, NumInAllowList))
    /\ Len(Unfiltered.records) > 0

(***************************************************************************)
(* AllCounters and CountersFor around the source file.  The two functions  *)
(* differ in the allow-list they hand on only, so one model serves both.   *)
(* src/ holds two versions: irksome.go opens and closes the file inside    *)
(* the iterator function; doc.go opens it in AllCounters itself, scans the *)
(* header there and closes it (defer) when AllCounters returns.  The text  *)
(* is a header and well-formed allowed rows, counted in lines; a Read      *)
(* hands the scanner any number of the remaining lines (whole lines: the   *)
(* model leaves out a line cut in two by the end of the buffer).           *)
(***************************************************************************)
MaxLines == 4

Versions == {"irksome.go", "doc.go"}

Sources ==
    [version : Versions,
     exists : BOOLEAN,          \* os.Open succeeds
     cpus : BOOLEAN,            \* the header names at least one CPU
     lines : 0..MaxLines]

SourceAtStart ==
    [pc |-> "call", file |-> "unopened", buffered |-> 0, scanned |-> 0,
     produced |-> 0, stopped |-> FALSE, readClosed |-> FALSE]

\* sc.Scan() on a bufio.Scanner over the file: the next buffered line, else
\* a Read of the file, which fails on a closed file and hands over k lines
\* on an open one unless the file is at its end
Scan(s, k) ==
    IF s.scanned < s.buffered
    THEN [ok |-> TRUE, s |-> [s EXCEPT !.scanned = @ + 1]]
    ELSE IF s.file /= "open"
    THEN [ok |-> FALSE, s |-> [s EXCEPT !.readClosed = TRUE]]
    ELSE IF s.buffered = input.lines
    THEN [ok |-> FALSE, s |-> s]
    ELSE [ok |-> TRUE, s |-> [s EXCEPT !.buffered = @ + k, !.scanned = @ + 1]]

\* what a Read may hand over
Chunks(s) ==
    IF s.buffered < input.lines THEN 1..(input.lines - s.buffered) ELSE {1}

\* the deferred f.Close()
Close(s) == [s EXCEPT !.file = "closed"]

\* the iterator function of irksome.go returns: its deferred f.Close() runs
ReturnFrom(s) ==
    IF input.version = "irksome.go" /\ s.file = "open"
    THEN [Close(s) EXCEPT !.pc = "end"]
    ELSE [s EXCEPT !.pc = "end"]

InitSource ==
    /\ input \in Sources
    /\ source = SourceAtStart
    /\ parser = NotCalled
    /\ emitted = NotCalled
    /\ panic = "none"
    /\ bstr = NotCalled
    /\ last = NotCalled
    /\ cpulist = NotCalled
    /\ dir = NotCalled
    /\ done = NotCalled
    /\ namech = NotCalled
    /\ namechClosed = NotCalled
    /\ detailch = NotCalled
    /\ detailchClosed = NotCalled
    /\ wg = NotCalled
    /\ worker = NotCalled
    /\ producer = NotCalled
    /\ closer = NotCalled
    /\ consumer = NotCalled
    /\ yielded = NotCalled
    /\ previous = NotCalled

\* irksome.go: AllCounters() only builds the iterator function
AllCounters ==
    /\ input.version = "irksome.go"
    /\ source.pc = "call"
    /\ source' = [source EXCEPT !.pc = "iterator"]
    /\ UNCHANGED <<cursorVars, tableVars, dir, done, namech, namechClosed,
                   detailch, detailchClosed, wg, worker, producer, closer,
                   consumer, yielded, previous, panic>>

\* doc.go: AllCounters() opens the file, allCounters(f, nil) scans the
\* header from it and builds the iterator function around the scanner, and
\* the deferred f.Close() runs as AllCounters returns
AllCountersDocGo ==
    /\ input.version = "doc.go"
    /\ source.pc = "call"
    /\ IF ~input.exists
       THEN source' = [source EXCEPT !.pc = "nothing"]
       ELSE \E k \in Chunks(source) :
            LET r == Scan([source EXCEPT !.file = "open"], k) IN
            source' = [Close(r.s) EXCEPT
                          !.pc = IF r.ok /\ input.cpus THEN "iterator"
                                 ELSE "nothing"]
    /\ UNCHANGED <<cursorVars, tableVars, dir, done, namech, namechClosed,
                   detailch, detailchClosed, wg, worker, producer, closer,
                   consumer, yielded, previous, panic>>

\* the consumer starts to range over the iterator
RangeOver ==
    /\ source.pc \in {"iterator", "nothing"}
    /\ source' =
         IF source.pc = "nothing" THEN [source EXCEPT !.pc = "end"]
         ELSE IF input.version = "doc.go" THEN [source EXCEPT !.pc = "rows"]
         ELSE IF ~input.exists THEN [source EXCEPT !.pc = "end"]
         ELSE [source EXCEPT !.file = "open", !.pc = "header"]
    /\ UNCHANGED <<cursorVars, tableVars, dir, done, namech, namechClosed,
                   detailch, detailchClosed, wg, worker, producer, closer,
                   consumer, yielded, previous, panic>>

\* irksome.go: iterateAllCounters scans the header
SourceScanHeader ==
    /\ source.pc = "header"
    /\ \E k \in Chunks(source) :
          LET r == Scan(source, k) IN
          source' = IF r.ok /\ input.cpus THEN [r.s EXCEPT !.pc = "rows"]
                    ELSE ReturnFrom(r.s)
    /\ UNCHANGED <<cursorVars, tableVars, dir, done, namech, namechClosed,
                   detailch, detailchClosed, wg, worker, producer, closer,
                   consumer, yielded, previous, panic>>

\* for sc.Scan() { ... }: the next row, or the end of the loop
SourceScanRow ==
    /\ source.pc = "rows"
    /\ \E k \in Chunks(source) :
          LET r == Scan(source, k) IN
          source' = IF r.ok THEN [r.s EXCEPT !.pc = "yield"]
                    ELSE ReturnFrom(r.s)
    /\ UNCHANGED <<cursorVars, tableVars, dir, done, namech, namechClosed,
                   detailch, detailchClosed, wg, worker, producer, closer,
                   consumer, yielded, previous, panic>>

\* if !yield(irq) { return }
SourceYield(more) ==
    /\ source.pc = "yield"
    /\ source' =
         IF more THEN [source EXCEPT !.produced = @ + 1, !.pc = "rows"]
         ELSE ReturnFrom([source EXCEPT !.produced = @ + 1, !.stopped = TRUE])
    /\ UNCHANGED <<cursorVars, tableVars, dir, done, namech, namechClosed,
                   detailch, detailchClosed, wg, worker, producer, closer,
                   consumer, yielded, previous, panic>>

NextSource ==
    \/ AllCounters
    \/ AllCountersDocGo
    \/ RangeOver
    \/ SourceScanHeader
    \/ SourceScanRow
    \/ \E more \in BOOLEAN : SourceYield(more)

SpecSource == InitSource /\ [][NextSource]_vars

(***************************************************************************)
(* C38: the opened counter source is closed only after the iteration has   *)
(* ended: in AllCounters and CountersFor no line is read from the source   *)
(* after it was closed, so no row is lost because the source was closed    *)
(* before the consumer started pulling.                                    *)
(***************************************************************************)
IterationEnded == source.pc = "end"

\* the rows of a readable table with a good header
RowsOfSource ==
    IF input.exists /\ input.cpus /\ input.lines > 0 THEN input.lines - 1
    ELSE 0

C38_ClosedAfterIteration ==
    /\ source.file = "closed" => IterationEnded
    /\ ~source.readClosed
    /\ (IterationEnded /\ ~source.stopped) => source.produced = RowsOfSource

\* a row was lost to a Read of the closed file
RowsLost ==
    /\ IterationEnded /\ ~source.stopped /\ source.readClosed
    /\ source.produced < RowsOfSource

\* the version of irksome.go alone keeps the order
IrksomeGoClosesLast ==
    input.version = "irksome.go" => C38_ClosedAfterIteration

====
